---- MODULE Spec2Model ----
(***************************************************************************)
(* AuthGuard behaviour monitor: the risk engine of                        *)
(* intelligence_api/core_logic.py and the verification / recovery         *)
(* handlers of intelligence_api/api.py over the profile store of          *)
(* shared_db.py.                                                          *)
(*                                                                         *)
(* Numbers.  Python floats are modelled in fixed point:                   *)
(*   - keystroke times are integers (ms); means, standard deviations and  *)
(*     z-scores are in hundredths;                                        *)
(*   - risk contributions are in 1/10000 of a score point, so that the    *)
(*     weighted products of the code are exact;                           *)
(*   - entropies are in thousandths (the code rounds them to 3 places);   *)
(*   - angles are in units of pi/4;                                       *)
(*   - time is in seconds, distances in hundredths of a km.               *)
(* A Python dict is a function whose DOMAIN is the set of keys present.   *)
(***************************************************************************)
EXTENDS Integers, Sequences, FiniteSets, TLC

VARIABLES
    profiles,    \* Firestore collection 'profiles': sequence of documents, id = index
    otps,        \* Redis keys "otp:<user_uid>": user_uid -> OTP record or NoOtp
    now,         \* the wall clock read by datetime.utcnow(), seconds
    hashSeed,    \* the interpreter's string-hash seed: fixes the order of list(set(..))
    last,        \* the last API request handled and its response (observation only)
    nreq,        \* number of API requests handled so far
    nticks,      \* number of times the clock has advanced
    tel,         \* SpecRisk: the telemetry handed to analyze_risk
    prof,        \* SpecRisk: the profile snapshot handed to analyze_risk
    res,         \* SpecRisk: the outcome of the last analyze_risk call, or NoResult
    merchants,   \* Firestore collection 'merchants': merchant id -> document
    lookups,     \* Redis keys of the merchant lookups: key -> entry or NoEntry
    threads,     \* the requests in flight: request -> its position and locals
    issuer       \* history: user_uid -> the merchant whose request issued the
                 \* OTP of "otp:<user_uid>", "" before any

vars == <<profiles, otps, now, hashSeed, last, nreq, nticks, tel, prof, res,
          merchants, lookups, threads, issuer>>

-----------------------------------------------------------------------------
(* Generic helpers *)

Abs(n) == IF n < 0 THEN -n ELSE n
Min(a, b) == IF a < b THEN a ELSE b
Max(a, b) == IF a > b THEN a ELSE b

\* dict.get(key, default)
Get(d, k, default) == IF k \in DOMAIN d THEN d[k] ELSE default

\* the empty dict {}
EmptyDict == [k \in {} |-> 0]

\* JSON null where an object is expected (Python None)
JsonNull == [json_type |-> "null"]
IsDict(v) == "json_type" \notin DOMAIN v

\* the element of a singleton
TheOne(S) == CHOOSE x \in S : TRUE

RECURSIVE SumSeq(_)
SumSeq(s) == IF s = <<>> THEN 0 ELSE Head(s) + SumSeq(Tail(s))

RECURSIVE SumSq(_)
SumSq(s) == IF s = <<>> THEN 0 ELSE Head(s) * Head(s) + SumSq(Tail(s))

Reverse(s) == [i \in 1..Len(s) |-> s[Len(s) + 1 - i]]

\* floor of the square root, by bisection on lo..hi
RECURSIVE ISqrtIn(_, _, _)
ISqrtIn(n, lo, hi) ==
    IF lo >= hi THEN lo
    ELSE LET mid == (lo + hi + 1) \div 2
         IN IF mid * mid <= n THEN ISqrtIn(n, mid, hi) ELSE ISqrtIn(n, lo, mid - 1)
ISqrt(n) == ISqrtIn(n, 0, Min(n, 46340))

\* np.mean of a non-empty integer vector, hundredths
NpMean(v) == (SumSeq(v) * 100) \div Len(v)

\* np.std (population) of a non-empty integer vector, hundredths
NpStd(v) ==
    LET n == Len(v)
        d == n * SumSq(v) - SumSeq(v) * SumSeq(v)      \* n^2 * variance
    IN ISqrt((d * 10000) \div (n * n))

-----------------------------------------------------------------------------
(* RiskConfig, core_logic.py *)

\* RiskConfig.WEIGHTS, in hundredths
WEIGHTS == [typing_dynamics |-> 35, mouse_dynamics |-> 25, behavioral_deviation |-> 20,
            geo_velocity |-> 10, device_fingerprint |-> 10]

\* 0.8, in thousandths
ENTROPY_THRESHOLD_LOW == 800
\* 2.5, in hundredths
Z_SCORE_THRESHOLD == 250
VELOCITY_MAX_KMH == 1000

-----------------------------------------------------------------------------
(* Statistical analysis *)

\* Python None where a float is expected
NoneFloat == -999999999

\* a variant of calculate_z_score that takes an unusable deviation as 1.0
calculate_z_score_unit_std(current_val, baseline_mean, baseline_std) ==
    LET std == IF baseline_std = 0 \/ baseline_std = NoneFloat THEN 100 ELSE baseline_std
    IN (200 * Abs(current_val - baseline_mean) + Abs(std)) \div (2 * Abs(std))

\* calculate_z_score: all arguments and the result in hundredths;
\* round(abs((current_val - baseline_mean) / baseline_std), 2)
calculate_z_score(current_val, baseline_mean, baseline_std) ==
    IF baseline_std = 0 \/ baseline_std = NoneFloat THEN 0
    ELSE (200 * Abs(current_val - baseline_mean) + Abs(baseline_std))
             \div (2 * Abs(baseline_std))

-----------------------------------------------------------------------------
(* Entropy and bot detection *)

\* 1000 * log2(n), n in 1..20
Log2Milli == <<0, 1000, 1585, 2000, 2322, 2585, 2807, 3000, 3170, 3322,
               3459, 3585, 3700, 3807, 3907, 4000, 4087, 4170, 4248, 4322>>

\* np.arctan2(dy, dx) in units of pi/4; exact for steps along the eight
\* compass directions (the steps of RobotPath and HumanPath), the octant otherwise
ArcTan2(dy, dx) ==
    CASE dy = 0 /\ dx >= 0 -> 0
      [] dy = 0 /\ dx < 0  -> 4
      [] dy > 0 /\ dx > 0  -> 1
      [] dy > 0 /\ dx = 0  -> 2
      [] dy > 0 /\ dx < 0  -> 3
      [] dy < 0 /\ dx > 0  -> -1
      [] dy < 0 /\ dx = 0  -> -2
      [] dy < 0 /\ dx < 0  -> -3

\* calculate_shannon_entropy(data, bins) for data in units of pi/4.
\* np.histogram(density=True): equal-width bins over [min, max] (widened by
\* 0.5 on both sides when min = max), height = count / (n * width);
\* result -sum(h * log2(h)) over the non-empty bins, in thousandths.
calculate_shannon_entropy(data, bins) ==
    IF Len(data) < 3 THEN 500
    ELSE
      LET n  == Len(data)
          mn == CHOOSE a \in {data[i] : i \in 1..n} : \A i \in 1..n : a <= data[i]
          mx == CHOOSE a \in {data[i] : i \in 1..n} : \A i \in 1..n : a >= data[i]
          k  == mx - mn
          BinOf(v) == Min(bins - 1, ((v - mn) * bins) \div k)
          Count(b) == Cardinality({i \in 1..n : BinOf(data[i]) = b})
          \* log2 of the height 4 * bins * c / (n * k * pi), thousandths
          LogH(c)  == Log2Milli[4] + Log2Milli[bins] + Log2Milli[c]
                        - Log2Milli[n] - Log2Milli[k] - 1651
          Term(c)  == IF c = 0 THEN 0
                      ELSE (4 * bins * c * LogH(c) * 100) \div (n * k * 314)
          RECURSIVE Total(_)
          Total(b) == IF b < 0 THEN 0 ELSE Term(Count(b)) + Total(b - 1)
      IN IF k = 0
           THEN \* one bin of width 1/bins holds everything: h = bins
                -(bins * Log2Milli[bins])
           ELSE -Total(bins - 1)

\* a variant of InsufficientData that gives the benefit of the doubt
InsufficientDataNeutral == [entropy |-> 1000, anomalies |-> <<"INSUFFICIENT_DATA">>]

\* lines 178-179: the answer for a path of fewer than 5 points
InsufficientData == [entropy |-> 500, anomalies |-> <<"INSUFFICIENT_DATA">>]

\* np.std(v) < bound, exactly: len^2 * variance < (bound * len)^2
NpStdBelow(v, bound) ==
    Len(v) * SumSq(v) - SumSeq(v) * SumSeq(v) < bound * bound * Len(v) * Len(v)

\* a variant of StraightLine that recognises a line in any direction
StraightLineAnyDirection(x_coords, y_coords) ==
    /\ Len(x_coords) > 10
    /\ \A i \in 1..Len(x_coords) :
          (x_coords[2] - x_coords[1]) * (y_coords[i] - y_coords[1])
            = (y_coords[2] - y_coords[1]) * (x_coords[i] - x_coords[1])

\* lines 203-210: more than 10 points whose x or y hardly varies
StraightLine(x_coords, y_coords) ==
    /\ Len(x_coords) > 10
    /\ NpStdBelow(x_coords, 2) \/ NpStdBelow(y_coords, 2)

\* detect_bot_movement: (entropy in thousandths, list of anomaly tags)
detect_bot_movement(mouse_path) ==
    IF Len(mouse_path) < 5 THEN InsufficientData
    ELSE
      LET n == Len(mouse_path)
          xs == [i \in 1..n |-> mouse_path[i].x]
          ys == [i \in 1..n |-> mouse_path[i].y]
          ts == [i \in 1..n |-> mouse_path[i].t]
          Bearing(i) == ArcTan2(ys[i + 1] - ys[i], xs[i + 1] - xs[i])
          angles == [i \in 1..(n - 2) |-> Bearing(i + 1) - Bearing(i)]
          \* entropy kept in quarter-thousandths so that the halvings are exact
          e0 == 4 * calculate_shannon_entropy(angles, 12)
          straight == StraightLine(xs, ys)
          intervals == [i \in 1..(n - 1) |-> ts[i + 1] - ts[i]]
          robotic == n > 5 /\ NpStdBelow(intervals, 5)
          e1 == IF straight THEN e0 \div 2 ELSE e0
          e2 == IF robotic THEN e1 \div 2 ELSE e1
          Jump(i) == LET dx == xs[i + 1] - xs[i]
                         dy == ys[i + 1] - ys[i]
                     IN dx * dx + dy * dy > 500 * 500
          jumps == SelectSeq([i \in 1..(n - 1) |-> i], Jump)
      IN [entropy |-> (e2 + 2) \div 4,
          anomalies |-> (IF straight THEN <<"STRAIGHT_LINE_MOVEMENT">> ELSE <<>>)
                        \o (IF robotic THEN <<"ROBOTIC_TIMING">> ELSE <<>>)
                        \o [i \in 1..Len(jumps) |-> "MOUSE_TELEPORTATION"]]

-----------------------------------------------------------------------------
(* Environment detection *)

\* the tags the environment detector and the clients of the model produce,
\* in the order the interpreter iterates a set of them under hash seed 0
TagOrder == <<"AUTOMATION_TOOL_DETECTED", "HEADLESS_BROWSER",
              "INVALID_SCREEN_DIMENSIONS", "SUSPICIOUS_HARDWARE">>

\* list(set(anomalies)): the iteration order of a set of strings is fixed by
\* the interpreter's hash seed
ListOfSet(S, seed) ==
    LET In(t) == t \in S
        asc == SelectSeq(TagOrder, In)
    IN IF seed = 0 THEN asc ELSE Reverse(asc)

\* an exception leaving the function
Raise == [raised |-> TRUE]

\* the markers of 'HeadlessChrome' in user_agent or 'PhantomJS' in user_agent
HeadlessAgents == {"HeadlessChrome/119", "PhantomJS/2.1"}

\* lines 260-273: the tags the detector appends for a fingerprint, in order
EnvFound(fingerprint) ==
    LET user_agent == Get(fingerprint, "userAgent", "")
        screen_res == Get(fingerprint, "screenRes", "0x0")
        coresKnown == "cores" \in DOMAIN fingerprint
    IN (IF user_agent \in HeadlessAgents THEN <<"HEADLESS_BROWSER">> ELSE <<>>)
       \o (IF screen_res \in {"0x0", "1x1"} THEN <<"INVALID_SCREEN_DIMENSIONS">> ELSE <<>>)
       \* cores = fingerprint.get('cores', 'unknown')
       \o (IF ~coresKnown \/ fingerprint.cores > 64 THEN <<"SUSPICIOUS_HARDWARE">> ELSE <<>>)

\* detect_environment_anomalies: no try/except; fingerprint.get raises
\* AttributeError when the fingerprint is not a dict
detect_environment_anomalies(telemetry, seed) ==
    LET bot_flags   == Get(telemetry, "bot_flags", <<>>)
        fingerprint == Get(telemetry, "fingerprint", EmptyDict)
    IN IF ~IsDict(fingerprint) THEN Raise
       ELSE
         LET found == EnvFound(fingerprint)
             anomalies == {bot_flags[i] : i \in 1..Len(bot_flags)}
                          \cup {found[i] : i \in 1..Len(found)}
         IN [raised |-> FALSE, val |-> ListOfSet(anomalies, seed)]

\* a variant of BotFlagsAfter in which anomalies is the caller's list itself
BotFlagsAliased(bot_flags, found) == bot_flags \o found

\* lines 251-255: anomalies is a list of its own that the caller's bot_flags
\* are copied into (extend), so the appends of lines 263-273 go to the copy:
\* the caller's list after the call
BotFlagsAfter(bot_flags, found) == bot_flags

\* the telemetry object after analyze_risk: get() inserts no default, the
\* analyzers only read; the one list written next to it is anomalies
TelemetryAfter(telemetry) ==
    IF "bot_flags" \in DOMAIN telemetry /\ IsDict(Get(telemetry, "fingerprint", EmptyDict))
      THEN [telemetry EXCEPT
               !.bot_flags = BotFlagsAfter(@, EnvFound(Get(telemetry, "fingerprint", EmptyDict)))]
      ELSE telemetry

-----------------------------------------------------------------------------
(* Typing dynamics *)

\* round(x, 2) of a risk in 1/10000 points
Round2(x) == ((x + 50) \div 100) * 100

\* a variant of FlightRisk without the cap
FlightRiskUncapped(flight_z) == (flight_z * 1000 * WEIGHTS.typing_dynamics) \div 100

\* lines 318-320: min(40, flight_z * 10) * WEIGHTS['typing_dynamics'] for a
\* z-score above the threshold
FlightRisk(flight_z) == (Min(400000, flight_z * 1000) * WEIGHTS.typing_dynamics) \div 100

\* lines 336-338: min(30, dwell_z * 8) * WEIGHTS['typing_dynamics']
DwellRisk(dwell_z) == (Min(300000, dwell_z * 800) * WEIGHTS.typing_dynamics) \div 100

\* analyze_typing_dynamics: (risk, metrics)
analyze_typing_dynamics(telemetry, profile) ==
    LET baseline_stats == Get(profile, "baseline_stats", EmptyDict)
        flight_vec == Get(telemetry, "flight_vec", <<>>)
        dwell_vec  == Get(telemetry, "dwell_vec", <<>>)
        flightOn == flight_vec # <<>> /\ "flight_mean" \in DOMAIN baseline_stats
        dwellOn  == dwell_vec # <<>> /\ "dwell_mean" \in DOMAIN baseline_stats
        flight_z == calculate_z_score(NpMean(flight_vec), baseline_stats.flight_mean,
                                      Get(baseline_stats, "flight_std", 1000))
        dwell_z  == calculate_z_score(NpMean(dwell_vec), baseline_stats.dwell_mean,
                                      Get(baseline_stats, "dwell_std", 500))
        flightRisk == IF flightOn /\ flight_z > Z_SCORE_THRESHOLD
                        THEN FlightRisk(flight_z) ELSE 0
        dwellRisk  == IF dwellOn /\ dwell_z > Z_SCORE_THRESHOLD
                        THEN DwellRisk(dwell_z) ELSE 0
    IN [risk |-> Round2(flightRisk + dwellRisk),
        metrics |->
            (IF flightOn THEN [flight_z_score |-> flight_z, flight_mean |-> NpMean(flight_vec)]
                         ELSE EmptyDict)
            @@ (IF dwellOn THEN [dwell_z_score |-> dwell_z, dwell_mean |-> NpMean(dwell_vec)]
                           ELSE EmptyDict)]

-----------------------------------------------------------------------------
(* Geo velocity *)

\* R * c of the haversine formula (R = 6371 km), hundredths of a km, in the
\* closed form it has for two points on the equator or on one meridian:
\* the central angle is the difference in degrees, 111.19 km per degree
HaversineKm(lat1, lon1, lat2, lon2) ==
    CASE lat1 = 0 /\ lat2 = 0 ->
             LET d == Abs(lon2 - lon1) IN Min(d, 360 - d) * 11119
      [] lon1 = lon2 /\ ~(lat1 = 0 /\ lat2 = 0) -> Abs(lat2 - lat1) * 11119

\* a variant of calculate_geo_velocity that takes the elapsed time unsigned
calculate_geo_velocity_unsigned(prev_location, current_location, time_diff_seconds) ==
    IF time_diff_seconds = 0 THEN 0
    ELSE IF ~({"lat", "lon"} \subseteq DOMAIN prev_location)
            \/ ~({"lat", "lon"} \subseteq DOMAIN current_location) THEN 0
    ELSE LET distance_km == HaversineKm(prev_location.lat, prev_location.lon,
                                        current_location.lat, current_location.lon)
             elapsed == Abs(time_diff_seconds)
         IN (distance_km \div elapsed) * 3600 + ((distance_km % elapsed) * 3600) \div elapsed

\* calculate_geo_velocity: km/h in hundredths; a location without lat/lon
\* raises KeyError inside the try and gives 0.0
calculate_geo_velocity(prev_location, current_location, time_diff_seconds) ==
    IF time_diff_seconds <= 0 THEN 0
    ELSE IF ~({"lat", "lon"} \subseteq DOMAIN prev_location)
            \/ ~({"lat", "lon"} \subseteq DOMAIN current_location) THEN 0
    ELSE LET distance_km == HaversineKm(prev_location.lat, prev_location.lon,
                                        current_location.lat, current_location.lon)
         IN \* distance_km / (time_diff_seconds / 3600)
            (distance_km \div time_diff_seconds) * 3600
              + ((distance_km % time_diff_seconds) * 3600) \div time_diff_seconds

\* a variant of GeoRisk that leaves the weight out
GeoRiskUnweighted(velocity) ==
    IF velocity > VELOCITY_MAX_KMH * 100 THEN 90 * 10000 ELSE 0

\* lines 439-440: the risk for a velocity in hundredths of km/h
GeoRisk(velocity) ==
    IF velocity > VELOCITY_MAX_KMH * 100 THEN 90 * WEIGHTS.geo_velocity * 100 ELSE 0

\* analyze_geo_anomalies: (risk, metrics); clock is datetime.utcnow().
\* The profile's last_session_timestamp is taken as the store returns what
\* was written: a naive UTC time, which current_time - last_time accepts.
analyze_geo_anomalies(telemetry, profile, clock) ==
    LET current_geo == Get(telemetry, "geo_location", EmptyDict)
        last_geo    == Get(profile, "last_geo_location", EmptyDict)
    IN IF current_geo # EmptyDict /\ last_geo # EmptyDict
          /\ "last_session_timestamp" \in DOMAIN profile
         THEN LET time_diff == clock - profile.last_session_timestamp
                  velocity  == calculate_geo_velocity(last_geo, current_geo, time_diff)
                  impossible == velocity > VELOCITY_MAX_KMH * 100
              IN [risk |-> GeoRisk(velocity),
                  metrics |->
                      [velocity_kmh |-> velocity,
                       \* round(velocity * (time_diff / 3600), 2)
                       distance_km  |-> (velocity \div 3600) * time_diff
                                          + ((velocity % 3600) * time_diff) \div 3600]
                      @@ (IF impossible THEN [impossible_travel |-> TRUE] ELSE EmptyDict)]
         ELSE [risk |-> 0, metrics |-> EmptyDict]

-----------------------------------------------------------------------------
(* Device fingerprint *)

\* the attributes analyze_device_consistency compares
FP_KEYS == {"screenRes", "colorDepth", "cores", "timezone"}

\* a variant of FingerprintMatches that counts absent attributes as differences
FingerprintMatchesAbsolute(current_fp, known_fp) ==
    Cardinality({key \in FP_KEYS : /\ key \in DOMAIN current_fp
                                   /\ key \in DOMAIN known_fp
                                   /\ current_fp[key] = known_fp[key]}) >= 3

\* one pass of the loop over known_fps: is known_fp the same device?
FingerprintMatches(current_fp, known_fp) ==
    LET checked     == {key \in FP_KEYS : key \in DOMAIN current_fp /\ key \in DOMAIN known_fp}
        total_checks == Cardinality(checked)
        match_score  == Cardinality({key \in checked : current_fp[key] = known_fp[key]})
    IN \* total_checks > 0 and (match_score / total_checks) >= 0.75
       total_checks > 0 /\ 100 * match_score >= 75 * total_checks

\* analyze_device_consistency: (risk, metrics)
analyze_device_consistency(telemetry, profile) ==
    LET current_fp == Get(telemetry, "fingerprint", EmptyDict)
        known_fps  == Get(profile, "known_fingerprints", <<>>)
    IN IF ~IsDict(current_fp) \/ current_fp = EmptyDict \/ known_fps = <<>>
         THEN [risk |-> 0, metrics |-> EmptyDict]
         ELSE IF \E i \in 1..Len(known_fps) : FingerprintMatches(current_fp, known_fps[i])
                THEN [risk |-> 0, metrics |-> [known_device |-> TRUE]]
                ELSE [risk |-> 60 * WEIGHTS.device_fingerprint * 100,
                      metrics |-> [new_device |-> TRUE]]

-----------------------------------------------------------------------------
(* Main risk orchestrator *)

\* sep.join(parts)
RECURSIVE Join(_, _)
Join(parts, sep) ==
    IF parts = <<>> THEN ""
    ELSE IF Len(parts) = 1 THEN parts[1]
    ELSE parts[1] \o sep \o Join(Tail(parts), sep)

\* str(x) of a float with at most three decimals, x given in thousandths
FormatMilli(m) ==
    LET a == Abs(m)
        f == a % 1000
        frac == IF f % 100 = 0 THEN ToString(f \div 100)
                ELSE IF f % 10 = 0
                  THEN ToString(f \div 100) \o ToString((f \div 10) % 10)
                  ELSE ToString(f \div 100) \o ToString((f \div 10) % 10) \o ToString(f % 10)
    IN (IF m < 0 THEN "-" ELSE "") \o ToString(a \div 1000) \o "." \o frac

\* Python None where a string is expected
None == "<None>"

NormalBehavior == "Normal behavior"
AccountLocked == "Account locked"
TypingReason == "Anomalous typing pattern detected"
GeoReason == "Impossible travel detected"
DeviceReason == "Unrecognized device"
EnvironmentReason(env_anomalies) == "Environment: " \o Join(env_anomalies, ", ")
BotReason(entropy) == "Bot detected: Low movement entropy (" \o FormatMilli(entropy) \o ")"

\* a variant of EnvRisk that counts the tags
EnvRiskPerTag(env_anomalies) == 30 * 10000 * Len(env_anomalies)

\* lines 541-544: the flat addition for a non-empty list of environment tags
EnvRisk(env_anomalies) == IF env_anomalies # <<>> THEN 30 * 10000 ELSE 0

\* lines 583-586: the override for an already locked profile
LockOverride(profile, total_risk, reasons) ==
    IF Get(profile, "is_locked", FALSE)
      THEN [total_risk |-> 100 * 10000,
            reasons |-> << Get(profile, "locked_reason", AccountLocked) >>]
      ELSE [total_risk |-> total_risk, reasons |-> reasons]

\* a variant of FinalScore without the floor
FinalScoreNoFloor(total_risk) == Min(total_risk \div 10000, 100)

\* lines 588-592: max(total_risk, 10), then min(int(total_risk), 100)
FinalScore(total_risk) == Min(Max(total_risk, 10 * 10000) \div 10000, 100)

\* a variant of ReasonStr that keeps two reasons
ReasonStrTopTwo(reasons) ==
    IF reasons = <<>> THEN NormalBehavior
    ELSE Join(SubSeq(reasons, 1, Min(2, Len(reasons))), "; ")

\* lines 594-598: the reason string
ReasonStr(reasons) ==
    IF reasons = <<>> THEN NormalBehavior
    ELSE Join(SubSeq(reasons, 1, Min(3, Len(reasons))), "; ")

\* analyze_risk(telemetry, profile) run at wall-clock time clock under hash
\* seed seed: Raise, or (score, reason, metrics)
analyze_risk(telemetry, profile, clock, seed) ==
    LET env == detect_environment_anomalies(telemetry, seed)
    IN IF env.raised THEN Raise
       ELSE
         LET env_anomalies == env.val
             envFired == env_anomalies # <<>>
             mouse  == detect_bot_movement(Get(telemetry, "mouse_path", <<>>))
             botFired == mouse.entropy < ENTROPY_THRESHOLD_LOW
             typing == analyze_typing_dynamics(telemetry, profile)
             geo    == analyze_geo_anomalies(telemetry, profile, clock)
             device == analyze_device_consistency(telemetry, profile)
             risk0 == EnvRisk(env_anomalies)
                      + (IF botFired THEN 85 * WEIGHTS.mouse_dynamics * 100 ELSE 0)
                      + typing.risk + geo.risk + device.risk
             reasons0 ==
                 (IF envFired THEN << EnvironmentReason(env_anomalies) >> ELSE <<>>)
                 \o (IF botFired THEN << BotReason(mouse.entropy) >> ELSE <<>>)
                 \o (IF typing.risk > 20 * 10000 THEN << TypingReason >> ELSE <<>>)
                 \o (IF geo.risk > 50 * 10000 THEN << GeoReason >> ELSE <<>>)
                 \o (IF device.risk > 30 * 10000 THEN << DeviceReason >> ELSE <<>>)
             over == LockOverride(profile, risk0, reasons0)
             final_score == FinalScore(over.total_risk)
         IN \* "; ".join raises TypeError on a reason that is None
            IF \E i \in 1..Len(over.reasons) : over.reasons[i] = None THEN Raise
            ELSE
              [raised |-> FALSE,
               score  |-> final_score,
               reason |-> ReasonStr(over.reasons),
               metrics |->
                   [timestamp |-> clock,
                    analysis_version |-> "2.0",
                    mouse_entropy |-> mouse.entropy,
                    typing_dynamics |-> typing.metrics,
                    geo_analysis |-> geo.metrics,
                    device_analysis |-> device.metrics,
                    risk_score |-> final_score,
                    risk_factors |-> over.reasons]
                   @@ (IF envFired THEN [environment_anomalies |-> env_anomalies]
                                   ELSE EmptyDict)
                   @@ (IF botFired THEN [bot_detected |-> TRUE] ELSE EmptyDict)
                   @@ (IF mouse.anomalies # <<>> THEN [mouse_anomalies |-> mouse.anomalies]
                                                ELSE EmptyDict)]

-----------------------------------------------------------------------------
(* Profile store, shared_db.py *)

Merchants == {"m1"}
Users == {"u1"}

\* ProfileDB.create_profile: the document added to the collection (the
\* server timestamps created_at / updated_at are left out of the model)
NewProfileDoc(merchant_id, user_uid, data) ==
    [merchant_id |-> merchant_id,
     user_uid |-> user_uid,
     baseline_stats |-> Get(data, "baseline_stats", EmptyDict),
     trust_score |-> 100,
     is_locked |-> FALSE,
     total_verifications |-> 0,
     failed_attempts |-> 0]

\* ProfileDB.get_profile: id of the first document of the query on
\* (merchant_id, user_uid), 0 when there is none.  The cached_query wrapper
\* never serves a stale profile to a handler that runs alone: update_profile
\* invalidates every query:get_profile* key and a cached None is not a hit.
ProfileId(store, merchant_id, user_uid) ==
    LET hits == {i \in 1..Len(store) : /\ store[i].merchant_id = merchant_id
                                       /\ store[i].user_uid = user_uid}
    IN IF hits = {} THEN 0 ELSE CHOOSE i \in hits : \A j \in hits : i <= j

\* ProfileDB.update_profile: Firestore update() sets each top-level field of
\* data, replacing a map field as a whole
update_profile(store, profile_id, data) ==
    [store EXCEPT ![profile_id] = data @@ store[profile_id]]

\* ProfileDB.lock_profile
lock_profile(store, profile_id, reason) ==
    update_profile(store, profile_id, [is_locked |-> TRUE, locked_reason |-> reason])

\* ProfileDB.unlock_profile
unlock_profile(store, profile_id) ==
    update_profile(store, profile_id,
                   [is_locked |-> FALSE, locked_reason |-> None, trust_score |-> 100])

-----------------------------------------------------------------------------
(* OTP service, otp_service.py *)

NoOtp == [code |-> ""]
\* self.otp_ttl
OTP_TTL == 600
\* self.max_attempts
MAX_ATTEMPTS == 3

\* CacheManager.get of "otp:<user_uid>": None once the TTL has run out
OtpGet(cache, user_uid, clock) ==
    IF cache[user_uid] # NoOtp /\ clock < cache[user_uid].expires
      THEN cache[user_uid] ELSE NoOtp

\* OTPService.send_otp: the cache after self.cache.set(cache_key, otp_data, ttl)
send_otp(cache, user_uid, otp_code, clock) ==
    [cache EXCEPT ![user_uid] = [code |-> otp_code, attempts |-> 0,
                                 expires |-> clock + OTP_TTL]]

\* a variant of verify_otp that does not compare the code
verify_otp_any_code(cache, user_uid, provided_code, clock) ==
    IF OtpGet(cache, user_uid, clock) = NoOtp
      THEN [ok |-> FALSE, cache |-> cache]
      ELSE [ok |-> TRUE, cache |-> [cache EXCEPT ![user_uid] = NoOtp]]

\* OTPService.verify_otp, lines 97-118, on the otp_data that cache.get
\* returned at line 95: (valid, cache afterwards)
verify_otp_on(otp_data, cache, user_uid, provided_code, clock) ==
    IF otp_data = NoOtp
      THEN [ok |-> FALSE, cache |-> cache]
    ELSE IF otp_data.attempts >= MAX_ATTEMPTS
      THEN [ok |-> FALSE, cache |-> [cache EXCEPT ![user_uid] = NoOtp]]
    ELSE IF otp_data.code = provided_code
      THEN [ok |-> TRUE, cache |-> [cache EXCEPT ![user_uid] = NoOtp]]
    ELSE [ok |-> FALSE,
          cache |-> [cache EXCEPT ![user_uid] =
                        [code |-> otp_data.code,
                         attempts |-> otp_data.attempts + 1,
                         expires |-> clock + OTP_TTL]]]

\* OTPService.verify_otp run without interruption
verify_otp(cache, user_uid, provided_code, clock) ==
    verify_otp_on(OtpGet(cache, user_uid, clock), cache, user_uid, provided_code, clock)

-----------------------------------------------------------------------------
(* Verification endpoint, api.py *)

\* int(os.getenv('RISK_THRESHOLD_LOW', 40)), int(os.getenv('RISK_THRESHOLD_HIGH', 80))
RISK_THRESHOLD_LOW == 40
RISK_THRESHOLD_HIGH == 80
\* known_fps[-5:]
MAX_KNOWN_FPS == 5

\* a variant of Decision with inclusive thresholds
DecisionInclusive(risk_score) ==
    IF risk_score <= RISK_THRESHOLD_LOW THEN "ALLOW"
    ELSE IF risk_score <= RISK_THRESHOLD_HIGH THEN "VERIFY"
    ELSE "LOCK"

\* lines 202-208: the decision for a score
Decision(risk_score) ==
    IF risk_score < RISK_THRESHOLD_LOW THEN "ALLOW"
    ELSE IF risk_score < RISK_THRESHOLD_HIGH THEN "VERIFY"
    ELSE "LOCK"

\* lines 190-197: telemetry enriched with the request's geo_location, else
\* with the resolver's answer for the remote address (NoGeo: no answer)
NoGeo == EmptyDict
EnrichGeo(telemetry, geo_location, ip_geo) ==
    IF geo_location # NoGeo THEN [geo_location |-> geo_location] @@ telemetry
    ELSE IF ip_geo # NoGeo THEN [geo_location |-> ip_geo] @@ telemetry
    ELSE telemetry

\* lines 191-195: the resolver is asked when the body has no geo_location
\* (request.remote_addr is set for every request received over HTTP)
ResolverCalled(geo_location) == geo_location = NoGeo

\* a variant of KnownFingerprints that never drops an entry
KnownFingerprintsUnbounded(known_fps, current_fp) == Append(known_fps, current_fp)

\* lines 221-230: known_fingerprints after the session's fingerprint
KnownFingerprints(known_fps, current_fp) ==
    LET appended == Append(known_fps, current_fp)
    IN SubSeq(appended, Max(1, Len(appended) - MAX_KNOWN_FPS + 1), Len(appended))

\* lines 236-250: baseline_stats written for a non-empty flight_vec
BaselineUpdate(profile, flight_vec) ==
    LET current_flight_mean == NpMean(flight_vec)
        old_stats == Get(profile, "baseline_stats", EmptyDict)
        old_flight_mean == Get(old_stats, "flight_mean", current_flight_mean)
    IN [flight_mean |-> (70 * old_flight_mean + 30 * current_flight_mean) \div 100,
        flight_std |-> NpStd(flight_vec)]

\* lines 213-252: the update written after a decision other than LOCK
UpdateData(profile, telemetry, risk_score, clock) ==
    [last_session_timestamp |-> clock, trust_score |-> Max(0, 100 - risk_score)]
    @@ (IF "fingerprint" \in DOMAIN telemetry
           /\ ~\E i \in 1..Len(profile.known_fingerprints) :
                   profile.known_fingerprints[i] = telemetry.fingerprint
          THEN [known_fingerprints |->
                   KnownFingerprints(profile.known_fingerprints, telemetry.fingerprint)]
          ELSE EmptyDict)
    @@ (IF "geo_location" \in DOMAIN telemetry
          THEN [last_geo_location |-> telemetry.geo_location] ELSE EmptyDict)
    @@ (IF Get(telemetry, "flight_vec", <<>>) # <<>>
          THEN [baseline_stats |-> BaselineUpdate(profile, telemetry.flight_vec)]
          ELSE EmptyDict)

\* a variant of HasMetrics that answers every decision in full
HasMetricsAlways(decision) == TRUE

\* lines 279-281: is metrics part of the response?
HasMetrics(decision) == decision \in {"VERIFY", "LOCK"}

\* what the model records of a handled request and of its response
Observed(op, merchant_id, user_uid, status) ==
    [op |-> op, merchant_id |-> merchant_id, user_uid |-> user_uid, status |-> status,
     decision |-> "", risk_score |-> -1, reason |-> "",
     lock_called |-> FALSE, updated |-> FALSE, has_metrics |-> FALSE,
     has_fingerprint |-> FALSE, fingerprint |-> EmptyDict, otp_code |-> "",
     flight_vec |-> <<>>, telemetry_geo |-> NoGeo, body_geo |-> NoGeo,
     resolver_called |-> FALSE, scored_geo |-> NoGeo]

\* the request's side of an observation of POST /v1/verify: telemetry0 and
\* geo_location as posted, telemetry as handed to the engine
ObservedVerify(merchant_id, user_uid, status, telemetry0, geo_location, telemetry) ==
    [Observed("verify", merchant_id, user_uid, status) EXCEPT
        !.has_fingerprint = ("fingerprint" \in DOMAIN telemetry),
        !.fingerprint = Get(telemetry, "fingerprint", EmptyDict),
        !.flight_vec = Get(telemetry, "flight_vec", <<>>),
        !.telemetry_geo = Get(telemetry0, "geo_location", NoGeo),
        !.body_geo = geo_location,
        !.resolver_called = ResolverCalled(geo_location),
        !.scored_geo = Get(telemetry, "geo_location", NoGeo)]

\* lines 166-185: the profile of a first time user
CreatedProfile(merchant_id, user_uid) ==
    [merchant_id |-> merchant_id, user_uid |-> user_uid,
     baseline_stats |-> EmptyDict, trust_score |-> 100,
     is_locked |-> FALSE, total_verifications |-> 0,
     known_fingerprints |-> <<>>]

\* lines 187-188 and 222: the profile dict the handler works on
ProfileSnapshot(fetched) ==
    [total_verifications |-> Get(fetched, "total_verifications", 0) + 1,
     known_fingerprints |-> Get(fetched, "known_fingerprints", <<>>)]
    @@ fetched

\* ProfileDB.get_profile: {'id': doc.id, **doc.to_dict()}, or None
NoProfile == [id |-> 0]
get_profile(store, merchant_id, user_uid) ==
    LET found == ProfileId(store, merchant_id, user_uid)
    IN IF found = 0 THEN NoProfile ELSE [id |-> found] @@ store[found]

\* POST /v1/verify from line 165 on, with the answer fetched that
\* get_profile gave at line 163, on the store as it is by then:
\* (store afterwards, response)
verify_session_on(fetched, store, clock, seed, merchant_id, user_uid, telemetry0, geo_location, ip_geo) ==
      LET found == fetched.id
          created == CreatedProfile(merchant_id, user_uid)
          store1 == IF found = 0
                      THEN Append(store, NewProfileDoc(merchant_id, user_uid, created))
                      ELSE store
          id == IF found = 0 THEN Len(store1) ELSE found
          profile == ProfileSnapshot(IF found = 0 THEN created
                                     ELSE [k \in DOMAIN fetched \ {"id"} |-> fetched[k]])
          telemetry == EnrichGeo(telemetry0, geo_location, ip_geo)
          Handle(risk) ==
            IF risk.raised THEN
                \* the handler's except: 500; the profile created above stays
                [store |-> store1,
                 response |-> ObservedVerify(merchant_id, user_uid, 500,
                                             telemetry0, geo_location, telemetry)]
            ELSE
              LET decision == Decision(risk.score)
              IN [store |->
                     IF decision = "LOCK"
                       THEN lock_profile(store1, id, risk.reason)
                       ELSE update_profile(store1, id,
                                UpdateData(profile, telemetry, risk.score, clock)),
                  response |->
                     [ObservedVerify(merchant_id, user_uid, 200,
                                     telemetry0, geo_location, telemetry) EXCEPT
                         !.decision = decision,
                         !.risk_score = risk.score,
                         !.reason = risk.reason,
                         !.lock_called = (decision = "LOCK"),
                         !.updated = (decision # "LOCK"),
                         !.has_metrics = HasMetrics(decision)]]
      IN \* the engine is called once and its result used throughout
         TheOne({Handle(risk) : risk \in {analyze_risk(telemetry, profile, clock, seed)}})

\* POST /v1/verify handled without interruption on the store at wall-clock
\* time clock: (store afterwards, response)
verify_session(store, clock, seed, merchant_id, user_uid, telemetry0, geo_location, ip_geo) ==
    IF user_uid = "" THEN
        [store |-> store, response |-> Observed("verify", merchant_id, user_uid, 400)]
    ELSE
        verify_session_on(get_profile(store, merchant_id, user_uid), store, clock, seed,
                          merchant_id, user_uid, telemetry0, geo_location, ip_geo)

\* GET /v1/profile/<user_uid>: the status and the fields of safe_profile
get_user_profile(store, merchant_id, user_uid) ==
    LET profile == get_profile(store, merchant_id, user_uid)
    IN IF profile = NoProfile THEN [status |-> 404]
       ELSE [status |-> 200,
             user_uid |-> profile.user_uid,
             trust_score |-> Get(profile, "trust_score", 100),
             is_locked |-> Get(profile, "is_locked", FALSE),
             total_verifications |-> Get(profile, "total_verifications", 0)]

\* POST /v1/profile/<user_uid>/reset
reset_user_profile(merchant_id, user_uid) ==
    LET id == ProfileId(profiles, merchant_id, user_uid)
    IN /\ UNCHANGED <<otps, issuer>>
       /\ IF id = 0 THEN
              /\ last' = Observed("reset", merchant_id, user_uid, 404)
              /\ UNCHANGED profiles
          ELSE
              /\ profiles' = update_profile(profiles, id,
                    [baseline_stats |-> EmptyDict, trust_score |-> 100, is_locked |-> FALSE,
                     failed_attempts |-> 0, known_fingerprints |-> <<>>])
              /\ last' = Observed("reset", merchant_id, user_uid, 200)

\* POST /v1/recover/request; sent: whether the SMTP delivery succeeded
request_recovery(merchant_id, user_uid, otp_code, sent) ==
    LET id == ProfileId(profiles, merchant_id, user_uid)
    IN /\ UNCHANGED profiles
       /\ IF id = 0 THEN
              /\ last' = Observed("request_recovery", merchant_id, user_uid, 404)
              /\ UNCHANGED <<otps, issuer>>
          ELSE IF ~Get(profiles[id], "is_locked", FALSE) THEN
              /\ last' = Observed("request_recovery", merchant_id, user_uid, 400)
              /\ UNCHANGED <<otps, issuer>>
          ELSE
              /\ otps' = send_otp(otps, user_uid, otp_code, now)
              /\ issuer' = [issuer EXCEPT ![user_uid] = merchant_id]
              /\ last' = Observed("request_recovery", merchant_id, user_uid,
                                  IF sent THEN 200 ELSE 500)

\* POST /v1/recover/verify
verify_recovery(merchant_id, user_uid, otp_code) ==
    LET v  == verify_otp(otps, user_uid, otp_code, now)
        id == ProfileId(profiles, merchant_id, user_uid)
    IN /\ otps' = v.cache
       /\ UNCHANGED issuer
       /\ IF v.ok /\ id # 0 THEN
              /\ profiles' = unlock_profile(profiles, id)
              /\ last' = [Observed("verify_recovery", merchant_id, user_uid, 200)
                             EXCEPT !.otp_code = otp_code]
          ELSE
              /\ last' = [Observed("verify_recovery", merchant_id, user_uid, 401)
                             EXCEPT !.otp_code = otp_code]
              /\ UNCHANGED profiles

-----------------------------------------------------------------------------
(* Inputs of the model *)

\* bounds: API requests handled, clock advances
MaxRequests == 3
MaxTicks == 1

\* seconds the clock may advance between two requests
ClockSteps == {60, 36000}

\* a mouse trace from its steps <<dx, dy>> and the timestamps after each step
RECURSIVE Trace(_, _, _, _)
Trace(steps, stamps, x, y) ==
    IF steps = <<>> THEN <<>>
    ELSE << [x |-> x + steps[1][1], y |-> y + steps[1][2], t |-> stamps[1]] >>
         \o Trace(Tail(steps), Tail(stamps), x + steps[1][1], y + steps[1][2])

\* 20 collinear points, 10 ms apart
RobotPath == [i \in 1..20 |-> [x |-> 10 * i, y |-> 100, t |-> 10 * i]]
\* 20 points on the line through (100, 100) with direction <<dx, dy>>, one
\* step every 10 ms
Line(dx, dy) == [i \in 1..20 |-> [x |-> 100 + dx * i, y |-> 100 + dy * i, t |-> 10 * i]]
\* 20 points on the diagonal, two steps forth and two steps back, every 10 ms
Sweep == [i \in 1..20 |->
             LET k == (i - 1) % 4
                 p == IF k = 3 THEN 1 ELSE k
             IN [x |-> 100 + 10 * p, y |-> 100 + 10 * p, t |-> 10 * i]]
\* the collinear paths of the model: horizontal, vertical, diagonal, oblique
CollinearPaths == {RobotPath, Line(0, 10), Line(10, 10), Line(-7, 7), Line(10, -5), Sweep}
\* six points that turn back and forth at irregular intervals
HumanPath == << [x |-> 0, y |-> 0, t |-> 0] >>
             \o Trace(<< <<10, 0>>, <<-10, 0>>, <<0, 10>>, <<0, -10>>, <<10, 10>> >>,
                      <<20, 50, 60, 100, 170>>, 0, 0)

FpA == [userAgent |-> "Mozilla/5.0", screenRes |-> "1920x1080", colorDepth |-> 24,
        cores |-> 8, timezone |-> "UTC"]
FpB == [userAgent |-> "HeadlessChrome/119", screenRes |-> "800x600", colorDepth |-> 24,
        cores |-> 4, timezone |-> "Asia/Tokyo"]
FpC == [userAgent |-> "Mozilla/5.0", screenRes |-> "1366x768", colorDepth |-> 24,
        cores |-> 8, timezone |-> "Asia/Tokyo"]
\* the n-th machine of an office: the same build, another processor
Device(n) == [userAgent |-> "Mozilla/5.0", screenRes |-> "1280x720", colorDepth |-> 32,
              cores |-> n, timezone |-> "Europe/Paris"]

L0  == [lat |-> 0, lon |-> 0]
L90 == [lat |-> 0, lon |-> 90]
L1  == [lat |-> 0, lon |-> 1]
\* GeoLocationService.get_location_from_ip: a normalized provider answer
IpGeo == [ip |-> "8.8.8.8", lat |-> 0, lon |-> 1, city |-> "Quito"]

BenignSession == [flight_vec |-> <<100, 120>>, dwell_vec |-> <<50, 52>>,
                  mouse_path |-> HumanPath, bot_flags |-> <<>>, fingerprint |-> FpA]
OtherDevice   == [flight_vec |-> <<100, 120>>, mouse_path |-> HumanPath,
                  fingerprint |-> FpC]
AttackSession == [flight_vec |-> <<150, 150>>, mouse_path |-> RobotPath,
                  bot_flags |-> <<"AUTOMATION_TOOL_DETECTED">>, fingerprint |-> FpB]
NullFingerprint == [mouse_path |-> HumanPath, fingerprint |-> JsonNull]
\* a scripted session typed slowly
SlowAttack == [flight_vec |-> <<500, 700>>, dwell_vec |-> <<300, 340>>,
               mouse_path |-> RobotPath, bot_flags |-> <<"AUTOMATION_TOOL_DETECTED">>,
               fingerprint |-> FpB, geo_location |-> L90]
\* sessions whose environment raises one tag twice, one tag from two
\* sides, four tags
FlaggedSessions ==
    {[BenignSession EXCEPT !.bot_flags = <<"AUTOMATION_TOOL_DETECTED",
                                            "AUTOMATION_TOOL_DETECTED">>],
     [BenignSession EXCEPT !.bot_flags = <<"HEADLESS_BROWSER">>,
                           !.fingerprint = [FpA EXCEPT !.userAgent = "PhantomJS/2.1"]],
     [BenignSession EXCEPT !.bot_flags = <<"AUTOMATION_TOOL_DETECTED", "HEADLESS_BROWSER",
                                            "AUTOMATION_TOOL_DETECTED">>,
                           !.fingerprint = [FpA EXCEPT !.userAgent = "PhantomJS/2.1",
                                                       !.screenRes = "1x1",
                                                       !.cores = 128]]}
\* typed four to six times slower than BenignSession
SlowSession == [flight_vec |-> <<500, 700>>, dwell_vec |-> <<300, 340>>,
                mouse_path |-> HumanPath, bot_flags |-> <<>>, fingerprint |-> FpA]

\* typed three baseline deviations slower than BenignSession
ModerateSession == [BenignSession EXCEPT !.flight_vec = <<140, 140>>, !.dwell_vec = <<66, 68>>]
\* typed exactly two and a half baseline deviations slower
BorderSession == [BenignSession EXCEPT !.flight_vec = <<135, 135>>, !.dwell_vec = <<63, 64>>]

\* the requests a client posts to /v1/verify in the API model: telemetry,
\* the body's geo_location, the resolver's answer for the remote address
Req(telemetry, geo_location, ip_geo) ==
    [telemetry |-> telemetry, geo_location |-> geo_location, ip_geo |-> ip_geo]
VerifyRequests ==
    {Req(EmptyDict, NoGeo, NoGeo),
     Req(BenignSession, L0, NoGeo),
     Req(OtherDevice, NoGeo, IpGeo),
     Req(AttackSession, L90, NoGeo),
     Req(NullFingerprint, NoGeo, NoGeo)}
\* the codes OTPService draws, the codes a client submits
GeneratedOtps == {"111111"}
OtpCodes == {"111111", "222222"}

\* the store after one user's sessions reqs, handled at the times at
RECURSIVE StoreAfter(_, _)
StoreAfter(reqs, at) ==
    IF reqs = <<>> THEN <<>>
    ELSE LET n == Len(reqs)
         IN verify_session(StoreAfter(SubSeq(reqs, 1, n - 1), at), at[n], 0, "m1", "u1",
                           reqs[n].telemetry, reqs[n].geo_location, reqs[n].ip_geo).store

\* the sessions a stored profile comes from: the requests of one user, the
\* times they are handled at
\*   fresh: a first time user
\*   known: one benign session from FpA at L0
\*   ahead: the same, handled by a server whose clock is a minute ahead
\*   steady: one session typed at a perfectly even pace: flight_std is 0
\*   partial: one session from a browser that reports two attributes only
\*   office: four sessions from the office machines
\*   locked: an attack one minute after a benign session
History ==
    [fresh   |-> << <<>>, <<>> >>,
     known   |-> << << Req(BenignSession, L0, NoGeo) >>, <<0>> >>,
     ahead   |-> << << Req(BenignSession, L0, NoGeo) >>, <<60>> >>,
     steady  |-> << << Req([BenignSession EXCEPT !.flight_vec = <<110, 110>>],
                           L0, NoGeo) >>, <<0>> >>,
     partial |-> << << Req([fingerprint |-> [screenRes |-> "1920x1080", timezone |-> "UTC"],
                            mouse_path |-> HumanPath], NoGeo, NoGeo) >>, <<0>> >>,
     office  |-> << [n \in 1..4 |->
                        Req([BenignSession EXCEPT !.fingerprint = Device(n)], L0, NoGeo)],
                    <<0, 0, 0, 0>> >>,
     locked  |-> << << Req(BenignSession, L0, NoGeo), Req(AttackSession, L90, NoGeo) >>,
                    <<0, 60>> >>]

\* the store after the sessions of History[k]
Stored == [k \in DOMAIN History |-> StoreAfter(History[k][1], History[k][2])]
\* the profile analyze_risk is handed after them
StoredProfile ==
    [k \in DOMAIN History |->
        IF Stored[k] = <<>> THEN ProfileSnapshot(CreatedProfile("m1", "u1"))
        ELSE ProfileSnapshot(Stored[k][1])]

Enrolled == Stored.office

-----------------------------------------------------------------------------
(* The API as a state machine: one action per request handled *)

NoResult == [called |-> FALSE]

Init ==
    /\ profiles \in {<<>>, Enrolled}
    /\ otps = [u \in Users |-> NoOtp]
    /\ now = 0
    /\ nticks = 0
    /\ hashSeed \in {0, 1}
    /\ last = Observed("none", "", "", 0)
    /\ nreq = 0
    /\ tel = EmptyDict
    /\ prof = EmptyDict
    /\ res = NoResult
    /\ merchants = <<>>
    /\ lookups = <<>>
    /\ threads = <<>>
    /\ issuer = [u \in Users |-> ""]

Handled == /\ nreq < MaxRequests
           /\ nreq' = nreq + 1
           /\ UNCHANGED <<now, nticks, hashSeed, tel, prof, res, merchants, lookups, threads>>

VerifySession ==
    \E m \in Merchants, u \in Users \cup {""}, r \in VerifyRequests :
      \E out \in {verify_session(profiles, now, hashSeed, m, u,
                                 r.telemetry, r.geo_location, r.ip_geo)} :
        /\ profiles' = out.store
        /\ last' = out.response
        /\ UNCHANGED <<otps, issuer>>
        /\ Handled

ResetUserProfile ==
    \E m \in Merchants, u \in Users : reset_user_profile(m, u) /\ Handled

RequestRecovery ==
    \E m \in Merchants, u \in Users, c \in GeneratedOtps, sent \in BOOLEAN :
        request_recovery(m, u, c, sent) /\ Handled

VerifyRecovery ==
    \E m \in Merchants, u \in Users, c \in OtpCodes :
        verify_recovery(m, u, c) /\ Handled

\* time passes
Tick ==
    \E d \in ClockSteps :
        /\ nticks < MaxTicks
        /\ nticks' = nticks + 1
        /\ now' = now + d
        /\ UNCHANGED <<profiles, otps, hashSeed, last, nreq, tel, prof, res,
                       merchants, lookups, threads, issuer>>

Next == VerifySession \/ ResetUserProfile \/ RequestRecovery \/ VerifyRecovery \/ Tick

Spec == Init /\ [][Next]_vars

-----------------------------------------------------------------------------
(* The sessions of one user: POST /v1/verify alone, over the ways a client *)
(* can state its location and over sessions typed at different speeds      *)

\* bound: sessions verified
MaxSessions == 2

SessionTelemetries == {BenignSession, SlowSession, [geo_location |-> L90] @@ BenignSession}
SessionRequests ==
    {Req(t, g, ip) : t \in SessionTelemetries, g \in {NoGeo, L0}, ip \in {NoGeo, IpGeo}}

\* a baseline with flight and dwell statistics, as ProfileDB.create_profile
\* stores the one it is given
FullBaseline == [flight_mean |-> 11000, flight_std |-> 1000,
                 dwell_mean |-> 5100, dwell_std |-> 500]

\* the user is unknown, or has a profile created with a full baseline
InitSessions ==
    /\ profiles \in {<<>>,
                     << NewProfileDoc("m1", "u1", [baseline_stats |-> FullBaseline]) >>}
    /\ otps = [u \in Users |-> NoOtp]
    /\ now = 0
    /\ nticks = 0
    /\ hashSeed = 0
    /\ last = Observed("none", "", "", 0)
    /\ nreq = 0
    /\ tel = EmptyDict
    /\ prof = EmptyDict
    /\ res = NoResult
    /\ merchants = <<>>
    /\ lookups = <<>>
    /\ threads = <<>>
    /\ issuer = [u \in Users |-> ""]

Session ==
    \E r \in SessionRequests :
      \E out \in {verify_session(profiles, now, hashSeed, "m1", "u1",
                                 r.telemetry, r.geo_location, r.ip_geo)} :
        /\ nreq < MaxSessions
        /\ nreq' = nreq + 1
        /\ profiles' = out.store
        /\ last' = out.response
        /\ UNCHANGED <<otps, now, nticks, hashSeed, tel, prof, res,
                       merchants, lookups, threads, issuer>>

NextSessions == Session \/ Tick

SpecSessions == InitSessions /\ [][NextSessions]_vars

-----------------------------------------------------------------------------
(* Account recovery of one user_uid that two merchants both have a profile *)
(* of: POST /v1/recover/request and POST /v1/recover/verify, each with the *)
(* API key of either merchant                                              *)

\* bound: recovery requests handled
MaxRecoveries == 3

Tenants == {"m1", "m2"}

\* the profiles of "u1" at the two merchants, those of locked locked
TenantProfiles(locked) ==
    [i \in 1..2 |->
        LET m == <<"m1", "m2">>[i]
            doc == NewProfileDoc(m, "u1", EmptyDict)
        IN IF m \in locked
             THEN [is_locked |-> TRUE, locked_reason |-> "Bot detected"] @@ doc
             ELSE doc]

InitTenants ==
    /\ profiles \in {TenantProfiles(locked) : locked \in (SUBSET Tenants) \ {{}}}
    /\ otps = [u \in Users |-> NoOtp]
    /\ now = 0
    /\ nticks = 0
    /\ hashSeed = 0
    /\ last = Observed("none", "", "", 0)
    /\ nreq = 0
    /\ tel = EmptyDict
    /\ prof = EmptyDict
    /\ res = NoResult
    /\ merchants = <<>>
    /\ lookups = <<>>
    /\ threads = <<>>
    /\ issuer = [u \in Users |-> ""]

Recovered ==
    /\ nreq < MaxRecoveries
    /\ nreq' = nreq + 1
    /\ UNCHANGED <<now, nticks, hashSeed, tel, prof, res, merchants, lookups, threads>>

TenantRequestRecovery ==
    \E m \in Tenants, c \in GeneratedOtps, sent \in BOOLEAN :
        request_recovery(m, "u1", c, sent) /\ Recovered

TenantVerifyRecovery ==
    \E m \in Tenants, c \in OtpCodes :
        verify_recovery(m, "u1", c) /\ Recovered

NextTenants == TenantRequestRecovery \/ TenantVerifyRecovery \/ Tick

SpecTenants == InitTenants /\ [][NextTenants]_vars

-----------------------------------------------------------------------------
(* Concurrent calls of OTPService.verify_otp for one user.  A call reads   *)
(* "otp:<user_uid>" and later deletes or rewrites it: two Redis commands,  *)
(* between which the calls of other requests run                           *)

\* bounds: verify_otp calls, OTPs issued
MaxCalls == 4
MaxIssues == 2

\* the codes generate_otp draws, issue by issue; they are taken distinct, so
\* that a code tells its issue
IssuedCodes == <<"111111", "333333", "555555">>
\* the codes the calls present
PresentedCodes == {"111111", "333333", "222222"}

Idle == [pc |-> "idle"]

InitOtp ==
    /\ profiles = <<>>
    /\ otps = [u \in Users |-> NoOtp]
    /\ now = 0
    /\ nticks = 0
    /\ hashSeed = 0
    /\ last = Observed("none", "", "", 0)
    /\ nreq = 0
    /\ tel = EmptyDict
    /\ prof = EmptyDict
    /\ res = NoResult
    /\ merchants = <<>>
    /\ lookups = <<>>
    /\ threads = [t \in 1..MaxCalls |-> Idle]
    /\ issuer = [u \in Users |-> ""]

\* OTPService.send_otp for "u1"
OtpSend ==
    /\ nreq < MaxIssues
    /\ nreq' = nreq + 1
    /\ otps' = send_otp(otps, "u1", IssuedCodes[nreq + 1], now)
    /\ UNCHANGED <<profiles, now, nticks, hashSeed, last, tel, prof, res,
                   merchants, lookups, threads, issuer>>

\* verify_otp, line 95: call t reads the key (the calls start in the order
\* of their numbers)
OtpRead ==
    \E t \in 1..MaxCalls, provided_code \in PresentedCodes :
        /\ threads[t].pc = "idle"
        /\ t > 1 => threads[t - 1].pc # "idle"
        /\ threads' = [threads EXCEPT ![t] =
                          [pc |-> "read", provided_code |-> provided_code,
                           otp_data |-> OtpGet(otps, "u1", now)]]
        /\ UNCHANGED <<profiles, otps, now, nticks, hashSeed, last, nreq, tel, prof, res,
                       merchants, lookups, issuer>>

\* verify_otp, lines 97-118: call t goes on with the otp_data it read,
\* writes the key and returns.  Of the call the model keeps the code of the
\* OTP it read, whether it compared its code with it, and what it returned
OtpFinish ==
    \E t \in 1..MaxCalls :
        /\ threads[t].pc = "read"
        /\ LET otp_data == threads[t].otp_data
               v == verify_otp_on(otp_data, otps, "u1", threads[t].provided_code, now)
           IN /\ otps' = v.cache
              /\ threads' = [threads EXCEPT ![t] =
                    [pc |-> "done", provided_code |-> threads[t].provided_code,
                     issue |-> otp_data.code,
                     compared |-> otp_data # NoOtp /\ otp_data.attempts < MAX_ATTEMPTS,
                     ok |-> v.ok]]
        /\ UNCHANGED <<profiles, now, nticks, hashSeed, last, nreq, tel, prof, res,
                       merchants, lookups, issuer>>

NextOtp == OtpSend \/ OtpRead \/ OtpFinish

SpecOtp == InitOtp /\ [][NextOtp]_vars

-----------------------------------------------------------------------------
(* The API key gate, middelware.py, in front of the handlers, with Redis   *)
(* connected; the merchant's portal rotates the key, an administrator      *)
(* suspends the merchant                                                   *)

\* bound: requests that present an API key
MaxGateRequests == 3

ApiKeys == {"k1", "k2"}
\* the keys secrets.token_urlsafe draws in rotate_key, one after the other
RotatedKeys == <<"k2">>

\* None where merchant data is expected
NoMerchant == [id |-> ""]
\* a Redis key that is not set
NoEntry == [value |-> NoMerchant, expires |-> 0]
\* ttl of "api_key:<key>" (middelware.py:61) and of cached_query on
\* get_merchant_by_api_key (shared_db.py:259)
API_KEY_TTL == 300
QUERY_TTL == 300

\* CacheManager.get: the value of a key, None once its TTL has run out
EntryGet(entry, clock) == IF clock < entry.expires THEN entry.value ELSE NoMerchant

\* the Firestore query of get_merchant_by_api_key: {'id': doc.id, **doc.to_dict()}
\* of the merchant whose api_key is api_key
MerchantWithKey(store, api_key) ==
    LET hits == {m \in DOMAIN store : store[m].api_key = api_key}
    IN IF hits = {} THEN NoMerchant
       ELSE LET m == CHOOSE x \in hits : TRUE IN [id |-> m] @@ store[m]

\* MerchantDB.get_merchant_by_api_key under cached_query(ttl=300): (result,
\* Redis afterwards).  A result of None is stored, and read back as a miss
get_merchant_by_api_key(redis, store, api_key, clock) ==
    LET cached_result == EntryGet(redis.query[api_key], clock)
        result == MerchantWithKey(store, api_key)
    IN IF cached_result # NoMerchant THEN [val |-> cached_result, redis |-> redis]
       ELSE [val |-> result,
             redis |-> IF result = NoMerchant THEN redis
                       ELSE [redis EXCEPT !.query[api_key] =
                                [value |-> result, expires |-> clock + QUERY_TTL]]]

\* require_api_key for a request with header X-API-KEY: api_key: (status
\* 200 when the handler is reached, merchant data, Redis afterwards)
require_api_key(redis, store, api_key, clock) ==
    LET hit == EntryGet(redis.api_key[api_key], clock)
        q == get_merchant_by_api_key(redis, store, api_key, clock)
        merchant_data == IF hit # NoMerchant THEN hit ELSE q.val
        redis1 == IF hit # NoMerchant THEN redis
                  ELSE IF q.val = NoMerchant THEN q.redis
                  ELSE [q.redis EXCEPT !.api_key[api_key] =
                           [value |-> q.val, expires |-> clock + API_KEY_TTL]]
    IN IF merchant_data = NoMerchant
         THEN [status |-> 403, merchant_data |-> NoMerchant, redis |-> redis1]
       ELSE IF merchant_data.status # "active"
         THEN [status |-> 403, merchant_data |-> merchant_data, redis |-> redis1]
       ELSE IF merchant_data.credits <= 0
         THEN [status |-> 402, merchant_data |-> merchant_data, redis |-> redis1]
       ELSE [status |-> 200, merchant_data |-> merchant_data, redis |-> redis1]

\* MerchantDB.deduct_credits: Increment(-amount); the Redis key it deletes,
\* "merchant:<id>:credits", is one that nothing sets or reads
deduct_credits(store, merchant_id, amount) ==
    [store EXCEPT ![merchant_id].credits = @ - amount]

\* MerchantDB.update_merchant: the update, then invalidate_pattern on
\* "query:get_merchant*"
update_merchant(redis, store, merchant_id, data) ==
    [store |-> [store EXCEPT ![merchant_id] = data @@ @],
     redis |-> [redis EXCEPT !.query = [k \in DOMAIN redis.query |-> NoEntry]]]

InitGate ==
    /\ profiles = <<>>
    /\ otps = [u \in Users |-> NoOtp]
    /\ now = 0
    /\ nticks = 0
    /\ hashSeed = 0
    /\ last = Observed("none", "", "", 0)
    /\ nreq = 0
    /\ tel = EmptyDict
    /\ prof = EmptyDict
    /\ res = NoResult
    /\ \E credits \in 0..2 :
          merchants = [m \in {"m1"} |->
                          [api_key |-> "k1", status |-> "active", credits |-> credits]]
    /\ lookups = [api_key |-> [k \in ApiKeys |-> NoEntry],
                  query   |-> [k \in ApiKeys |-> NoEntry]]
    /\ threads = <<>>
    /\ issuer = [u \in Users |-> ""]

\* a request with an API key to a protected endpoint: POST /v1/verify,
\* which deducts a credit when it has handled the session, or one of the
\* endpoints that deduct nothing
GateRequest ==
    \E api_key \in ApiKeys, verifies \in BOOLEAN :
      \E g \in {require_api_key(lookups, merchants, api_key, now)} :
        /\ nreq < MaxGateRequests
        /\ nreq' = nreq + 1
        /\ lookups' = g.redis
        /\ merchants' = IF g.status = 200 /\ verifies
                          THEN deduct_credits(merchants, g.merchant_data.id, 1)
                          ELSE merchants
        /\ last' = [op |-> "request", api_key |-> api_key, status |-> g.status,
                    merchant_id |-> g.merchant_data.id]
        /\ UNCHANGED <<profiles, otps, now, nticks, hashSeed, tel, prof, res, threads, issuer>>

\* portal: POST /api/rotate-key writes the new key to the merchant document
RotateKey ==
    \E i \in 1..Len(RotatedKeys) :
        /\ merchants["m1"].api_key = IF i = 1 THEN "k1" ELSE RotatedKeys[i - 1]
        /\ merchants' = [merchants EXCEPT !["m1"].api_key = RotatedKeys[i]]
        /\ last' = [op |-> "rotate_key", api_key |-> RotatedKeys[i], status |-> 200,
                    merchant_id |-> "m1"]
        /\ UNCHANGED <<profiles, otps, now, nticks, hashSeed, nreq, tel, prof, res,
                       lookups, threads, issuer>>

\* MerchantDB.update_merchant(merchant_id, {'status': 'suspended'})
Suspend ==
    /\ merchants["m1"].status = "active"
    /\ LET u == update_merchant(lookups, merchants, "m1", [status |-> "suspended"])
       IN /\ merchants' = u.store
          /\ lookups' = u.redis
    /\ last' = [op |-> "update_merchant", api_key |-> "", status |-> 200,
                merchant_id |-> "m1"]
    /\ UNCHANGED <<profiles, otps, now, nticks, hashSeed, nreq, tel, prof, res,
                   threads, issuer>>

NextGate == GateRequest \/ RotateKey \/ Suspend \/ Tick

SpecGate == InitGate /\ [][NextGate]_vars

-----------------------------------------------------------------------------
(* Concurrent POST /v1/verify requests for one user of one merchant: a     *)
(* request asks ProfileDB.get_profile and goes on later, and the other     *)
(* requests run in between                                                 *)

\* bound: requests in flight
MaxVerifiers == 2

VerifierTelemetries == {BenignSession, SlowSession, AttackSession}

InitFirst ==
    /\ profiles = <<>>
    /\ otps = [u \in Users |-> NoOtp]
    /\ now = 0
    /\ nticks = 0
    /\ hashSeed = 0
    /\ last = Observed("none", "", "", 0)
    /\ nreq = 0
    /\ tel = EmptyDict
    /\ prof = EmptyDict
    /\ res = NoResult
    /\ merchants = <<>>
    /\ lookups = <<>>
    /\ threads = [t \in 1..MaxVerifiers |-> Idle]
    /\ issuer = [u \in Users |-> ""]

\* verify_session, lines 153-163: request t parses its body and asks for the
\* profile (the requests start in the order of their numbers)
VerifyFetch ==
    \E t \in 1..MaxVerifiers, telemetry \in VerifierTelemetries :
        /\ threads[t].pc = "idle"
        /\ t > 1 => threads[t - 1].pc # "idle"
        /\ threads' = [threads EXCEPT ![t] =
                          [pc |-> "fetched", telemetry |-> telemetry,
                           profile |-> get_profile(profiles, "m1", "u1")]]
        /\ UNCHANGED <<profiles, otps, now, nticks, hashSeed, last, nreq, tel, prof, res,
                       merchants, lookups, issuer>>

\* verify_session, lines 165-295: request t creates the profile if it got
\* none, scores the session, writes the profile and answers
VerifyFinish ==
    \E t \in 1..MaxVerifiers :
        /\ threads[t].pc = "fetched"
        /\ \E out \in {verify_session_on(threads[t].profile, profiles, now, hashSeed,
                                         "m1", "u1", threads[t].telemetry, L0, NoGeo)} :
              /\ profiles' = out.store
              /\ last' = out.response
        /\ threads' = [threads EXCEPT ![t] = [pc |-> "done"]]
        /\ nreq' = nreq + 1
        /\ UNCHANGED <<otps, now, nticks, hashSeed, tel, prof, res, merchants, lookups, issuer>>

NextFirst == VerifyFetch \/ VerifyFinish \/ Tick

SpecFirst == InitFirst /\ [][NextFirst]_vars

-----------------------------------------------------------------------------
(* The risk engine as a pure function: its inputs are drawn in InitRisk,    *)
(* Analyze calls it at the current time, Tick lets time pass between calls *)

\* the attributes of FpA or of FpB, each attribute present or absent
PartialFingerprints ==
    UNION {{[k \in S |-> IF c[k] = 1 THEN FpA[k] ELSE FpB[k]] : c \in [S -> {1, 2}]}
           : S \in SUBSET FP_KEYS}

RiskTelemetries ==
    {EmptyDict, BenignSession, OtherDevice, AttackSession, NullFingerprint,
     [geo_location |-> L90] @@ BenignSession,
     [geo_location |-> L90] @@ AttackSession}
    \cup {[fingerprint |-> f, mouse_path |-> HumanPath] : f \in PartialFingerprints}

FreshProfile   == StoredProfile.fresh
KnownProfile   == StoredProfile.known
AheadProfile   == StoredProfile.ahead
SteadyProfile  == StoredProfile.steady
LockedProfile  == StoredProfile.locked

\* the profiles of the calls: the fields set by hand on top of a stored
\* profile, and the sessions it comes from
AsStored(k) == <<EmptyDict, k>>
\* a document locked without a stored reason
LockedNoReason == << [is_locked |-> TRUE], "fresh" >>
\* the known profile with a full baseline, as create_profile stores one: the
\* deviations of flight and dwell times usual, zero, or null
BaselineProfiles ==
    {<< [baseline_stats |-> [flight_mean |-> 11000, flight_std |-> std[1],
                             dwell_mean |-> 5100, dwell_std |-> std[2]]], "known" >>
       : std \in {<<1000, 500>>, <<0, 0>>, <<0, 500>>, <<NoneFloat, NoneFloat>>}}

RiskProfiles ==
    {AsStored("fresh"), AsStored("known"), AsStored("partial"), AsStored("office"),
     AsStored("locked"), LockedNoReason}

\* sessions at a distance of 0, 111 and 10,007 km from the last one, before
\* and after it by the clocks
GeoCases ==
    {[geo_location |-> l] @@ BenignSession : l \in {L0, L1, L90}}
    \X {AsStored("known"), AsStored("ahead"), AsStored("locked")}
\* sessions typed at the usual and at a slow pace, against baselines
TypingCases ==
    {BenignSession, SlowSession, SlowAttack, ModerateSession, BorderSession, OtherDevice}
    \X ({AsStored("fresh"), AsStored("known"), AsStored("steady")} \cup BaselineProfiles)
\* a collinear mouse path, alone and with an ordinary fingerprint
CollinearCases ==
    ({[mouse_path |-> p] : p \in CollinearPaths}
        \cup {[mouse_path |-> p, fingerprint |-> FpA] : p \in CollinearPaths})
    \X {AsStored("fresh"), AsStored("known"), AsStored("locked")}
FlaggedCases == FlaggedSessions \X {AsStored("fresh"), AsStored("known")}

\* the calls of the model: <<telemetry, profile>>
RiskCases ==
    {<<c[1], c[2][1] @@ StoredProfile[c[2][2]]>> :
        c \in (RiskTelemetries \X RiskProfiles)
              \cup GeoCases \cup TypingCases \cup CollinearCases \cup FlaggedCases}

InitRisk ==
    /\ \E c \in RiskCases : tel = c[1] /\ prof = c[2]
    /\ hashSeed \in {0, 1}
    /\ now = 0
    /\ nticks = 0
    /\ res = NoResult
    /\ profiles = <<>>
    /\ otps = [u \in Users |-> NoOtp]
    /\ last = Observed("none", "", "", 0)
    /\ nreq = 0
    /\ merchants = <<>>
    /\ lookups = <<>>
    /\ threads = <<>>
    /\ issuer = [u \in Users |-> ""]

\* analyze_risk(telemetry, profile), called at the current time
Analyze ==
    /\ res' = [called |-> TRUE] @@ analyze_risk(tel, prof, now, hashSeed)
    /\ tel' = TelemetryAfter(tel)
    \* the profile is only read: profile.get at lines 303, 418-419, 474, 583-585
    /\ prof' = prof
    /\ UNCHANGED <<profiles, otps, now, hashSeed, last, nreq, nticks,
                   merchants, lookups, threads, issuer>>

NextRisk == Analyze \/ Tick

SpecRisk == InitRisk /\ [][NextRisk]_vars

-----------------------------------------------------------------------------
(* Properties of the risk engine, under SpecRisk *)

Locked(profile) == Get(profile, "is_locked", FALSE)

\* C1: for every telemetry, analyze_risk on a locked profile returns score 100
\* and, as its reason, the profile's locked_reason ('Account locked' when
\* none is stored), and nothing else.
\* Does not hold: telemetry whose fingerprint is null makes the call raise.
C1_LockedOverride ==
    res.called /\ Locked(prof) =>
        /\ ~res.raised
        /\ res.score = 100
        /\ res.reason = Get(prof, "locked_reason", AccountLocked)
        /\ res.metrics.risk_factors = << Get(prof, "locked_reason", AccountLocked) >>

\* C2: every score analyze_risk returns is an integer of 10..100, and is 100
\* when the profile is locked.
C2_ScoreRange ==
    res.called /\ ~res.raised =>
        /\ res.score \in 10..100
        /\ Locked(prof) => res.score = 100

\* a call on a locked profile has returned
C2_Witness ==
    /\ res.called /\ ~res.raised
    /\ Locked(prof)
    /\ tel = AttackSession
    /\ res.score = 100

\* scenario A: empty telemetry, an unlocked profile without baseline
ScenarioA ==
    /\ res.called
    /\ tel = EmptyDict
    /\ ~Locked(prof)
    /\ Get(prof, "baseline_stats", EmptyDict) = EmptyDict

\* C4 as the code has it: scenario A returns score 51 (30 for the environment
\* anomalies of the missing fingerprint, 21.25 for the low default entropy
\* of the missing mouse path), a reason naming both, and the decision VERIFY.
C4_ScenarioA ==
    ScenarioA =>
        /\ ~res.raised
        /\ res.score = 51
        /\ res.reason \in
             {"Environment: INVALID_SCREEN_DIMENSIONS, SUSPICIOUS_HARDWARE; "
                \o "Bot detected: Low movement entropy (0.5)",
              "Environment: SUSPICIOUS_HARDWARE, INVALID_SCREEN_DIMENSIONS; "
                \o "Bot detected: Low movement entropy (0.5)"}
        /\ Decision(res.score) = "VERIFY"

\* C4 as stated: scenario A returns score 10, reason 'Normal behavior' and
\* the decision ALLOW.
C4_ScenarioA_AsStated ==
    ScenarioA =>
        /\ ~res.raised
        /\ res.score = 10
        /\ res.reason = NormalBehavior
        /\ Decision(res.score) = "ALLOW"

\* scenario A has been run on a first time user's profile
C4_Witness == ScenarioA /\ prof = FreshProfile /\ ~res.raised

\* C7: two calls of analyze_risk with the same telemetry and the same profile
\* snapshot return the same (score, reason, metrics), whenever they run.
\* Does not hold: metrics.timestamp and the geo velocity read the clock.
C7_Deterministic ==
    [][res.called /\ res'.called => res' = res]_vars

\* attributes present on both sides, and those of them with equal values
CommonAttrs(fp, known_fp) == {key \in FP_KEYS : key \in DOMAIN fp /\ key \in DOMAIN known_fp}
SharedAttrs(fp, known_fp) == {key \in CommonAttrs(fp, known_fp) : fp[key] = known_fp[key]}

\* the device analyzer ran on the known fingerprints of a profile
DeviceChecked ==
    /\ res.called /\ ~res.raised
    /\ Get(prof, "known_fingerprints", <<>>) # <<>>

\* C8 as the code has it: known_device iff, for some known fingerprint, at
\* least one attribute is present on both sides and at least 75% of the
\* attributes present on both sides are equal; new_device otherwise; an empty
\* fingerprint flags neither.
C8_DeviceMatch ==
    DeviceChecked =>
        LET fp == Get(tel, "fingerprint", EmptyDict)
            known == prof.known_fingerprints
            same == \E i \in 1..Len(known) :
                        /\ CommonAttrs(fp, known[i]) # {}
                        /\ 4 * Cardinality(SharedAttrs(fp, known[i]))
                             >= 3 * Cardinality(CommonAttrs(fp, known[i]))
        IN res.metrics.device_analysis =
             IF fp = EmptyDict THEN EmptyDict
             ELSE IF same THEN [known_device |-> TRUE]
             ELSE [new_device |-> TRUE]

\* C8 as stated: known_device if at least 3 of the 4 attributes are shared
\* with some known fingerprint, new_device if fewer than 3 are shared with
\* every known fingerprint, absent attributes included.
C8_DeviceMatch_AsStated ==
    DeviceChecked /\ Get(tel, "fingerprint", EmptyDict) # EmptyDict =>
        LET fp == tel.fingerprint
            known == prof.known_fingerprints
            shares3 == \E i \in 1..Len(known) : Cardinality(SharedAttrs(fp, known[i])) >= 3
        IN res.metrics.device_analysis =
             IF shares3 THEN [known_device |-> TRUE] ELSE [new_device |-> TRUE]

\* a fingerprint of one attribute, equal to the known one's, is a known device
C8_Witness ==
    /\ DeviceChecked
    /\ prof = KnownProfile
    /\ Get(tel, "fingerprint", EmptyDict) = [screenRes |-> "1920x1080"]
    /\ res.metrics.device_analysis = [known_device |-> TRUE]

\* C10: a fault inside an analyzer never leaves analyze_risk: every call
\* returns a (score, reason, metrics) result.
\* Does not hold: detect_environment_anomalies raises on a null fingerprint.
C10_NoFaultPropagates ==
    res.called => ~res.raised /\ {"score", "reason", "metrics"} \subseteq DOMAIN res

\* the points of path lie on one line
Collinear(path) ==
    \A i \in 1..Len(path) :
        (path[2].x - path[1].x) * (path[i].y - path[1].y)
          = (path[2].y - path[1].y) * (path[i].x - path[1].x)

\* every step of path is the same non-zero move
OneWay(path) ==
    \A i \in 1..(Len(path) - 1) :
        /\ path[i + 1].x - path[i].x = path[2].x - path[1].x
        /\ path[i + 1].y - path[i].y = path[2].y - path[1].y
        /\ path[2].x # path[1].x \/ path[2].y # path[1].y

\* the line is horizontal or vertical
AxisAligned(path) ==
    \/ \A i \in 1..Len(path) : path[i].x = path[1].x
    \/ \A i \in 1..Len(path) : path[i].y = path[1].y

\* scenario B: a mouse path of 20 collinear points, 10 ms apart, was analyzed
ScenarioB ==
    /\ res.called /\ ~res.raised
    /\ "mouse_path" \in DOMAIN tel
    /\ Len(tel.mouse_path) = 20
    /\ Collinear(tel.mouse_path)
    /\ \A i \in 1..19 : tel.mouse_path[i + 1].t - tel.mouse_path[i].t = 10

\* the tags the mouse detector returned
MouseTags == LET tags == Get(res.metrics, "mouse_anomalies", <<>>)
             IN {tags[i] : i \in 1..Len(tags)}

GeoActive ==
    /\ res.called /\ ~res.raised
    /\ Get(tel, "geo_location", EmptyDict) # EmptyDict
    /\ Get(prof, "last_geo_location", EmptyDict) # EmptyDict
    /\ "last_session_timestamp" \in DOMAIN prof

\* seconds from the profile's last session to the call
Elapsed == res.metrics.timestamp - prof.last_session_timestamp

\* the telemetry without its location
WithoutGeo(telemetry) == [k \in DOMAIN telemetry \ {"geo_location"} |-> telemetry[k]]

\* the result of the same call on the telemetry without its location
NoGeoResult == analyze_risk(WithoutGeo(tel), prof, res.metrics.timestamp, hashSeed)

\* C12: with a current location, a last location, a last session timestamp
\* and a positive elapsed time, a velocity above 1000 km/h sets
\* impossible_travel and adds 90 * 0.10 = 9 points to the total risk (seen in
\* the score of an unlocked profile, above the floor and below the cap); a
\* velocity of at most 1000 km/h sets no flag and adds nothing.
C12_ImpossibleTravel ==
    GeoActive /\ Elapsed > 0 =>
        LET g == res.metrics.geo_analysis
        IN /\ "velocity_kmh" \in DOMAIN g
           /\ IF g.velocity_kmh > 1000 * 100
                THEN /\ "impossible_travel" \in DOMAIN g /\ g.impossible_travel
                     /\ ~Locked(prof) /\ NoGeoResult.score >= 11
                          => res.score = Min(100, NoGeoResult.score + 9)
                ELSE /\ "impossible_travel" \notin DOMAIN g
                     /\ res.score = NoGeoResult.score

\* scenario C: 10,000 km from the last location within 60 seconds
C12_Witness ==
    /\ GeoActive /\ Elapsed = 60
    /\ tel.geo_location = L90 /\ prof.last_geo_location = L0
    /\ ~Locked(prof)
    /\ res.metrics.geo_analysis.velocity_kmh > 500000 * 100
    /\ res.metrics.geo_analysis.impossible_travel
    /\ res.score = NoGeoResult.score + 9

\* C13: for an elapsed time <= 0, calculate_geo_velocity returns 0 for every
\* pair of locations, and the geo analyzer sets no impossible_travel flag
\* and contributes nothing to the risk.
C13_NonPositiveElapsed ==
    GeoActive /\ Elapsed <= 0 =>
        /\ calculate_geo_velocity(prof.last_geo_location, tel.geo_location, Elapsed) = 0
        /\ res.metrics.geo_analysis = [velocity_kmh |-> 0, distance_km |-> 0]
        /\ res.score = NoGeoResult.score

\* a session 10,000 km away, a minute before the last one by the clocks
C13_Witness ==
    /\ GeoActive /\ Elapsed = -60
    /\ tel.geo_location = L90 /\ prof.last_geo_location = L0
    /\ res.metrics.geo_analysis.velocity_kmh = 0
    /\ res.score = NoGeoResult.score

\* the typing analyzer compared the session's flight (dwell) times with a
\* baseline whose deviation is 0 or None
FlightStdUnusable ==
    /\ res.called /\ ~res.raised
    /\ Get(tel, "flight_vec", <<>>) # <<>>
    /\ "flight_mean" \in DOMAIN prof.baseline_stats
    /\ "flight_std" \in DOMAIN prof.baseline_stats
    /\ prof.baseline_stats.flight_std \in {0, NoneFloat}
DwellStdUnusable ==
    /\ res.called /\ ~res.raised
    /\ Get(tel, "dwell_vec", <<>>) # <<>>
    /\ "dwell_mean" \in DOMAIN prof.baseline_stats
    /\ "dwell_std" \in DOMAIN prof.baseline_stats
    /\ prof.baseline_stats.dwell_std \in {0, NoneFloat}

\* the telemetry without its keystroke vectors
WithoutTyping(telemetry) ==
    [k \in DOMAIN telemetry \ {"flight_vec", "dwell_vec"} |-> telemetry[k]]

\* C14: calculate_z_score returns 0 for a baseline deviation of 0 or None,
\* whatever the current value and the mean, and the typing analyzer then
\* adds no risk for that statistic: with both deviations unusable the score
\* is that of the same session without keystrokes.
C14_ZeroStd ==
    /\ FlightStdUnusable =>
          /\ calculate_z_score(NpMean(tel.flight_vec), prof.baseline_stats.flight_mean,
                               prof.baseline_stats.flight_std) = 0
          /\ res.metrics.typing_dynamics.flight_z_score = 0
    /\ DwellStdUnusable =>
          /\ calculate_z_score(NpMean(tel.dwell_vec), prof.baseline_stats.dwell_mean,
                               prof.baseline_stats.dwell_std) = 0
          /\ res.metrics.typing_dynamics.dwell_z_score = 0
    /\ FlightStdUnusable /\ (DwellStdUnusable \/ "dwell_mean" \notin DOMAIN prof.baseline_stats)
          => res.score = analyze_risk(WithoutTyping(tel), prof, res.metrics.timestamp,
                                      hashSeed).score

\* a session typed five times slower than a baseline of deviation 0
C14_Witness ==
    /\ FlightStdUnusable
    /\ prof = SteadyProfile
    /\ tel = SlowSession
    /\ res.metrics.typing_dynamics.flight_mean = 60000
    /\ res.metrics.typing_dynamics.flight_z_score = 0
    /\ res.score = 10

\* C15: a call of analyze_risk leaves the telemetry and the profile it was
\* given as they were (no field added, removed or changed) and writes
\* neither the profile store nor the OTP cache.
C15_NoSideEffect ==
    [][now' = now => /\ tel' = tel
                     /\ prof' = prof
                     /\ profiles' = profiles
                     /\ otps' = otps]_vars

\* a call has returned two environment tags, one declared by the client and
\* one the detector found: the client's list still holds its one flag
C15_Witness ==
    /\ res.called /\ ~res.raised
    /\ tel = AttackSession
    /\ Len(res.metrics.environment_anomalies) = 2
    /\ tel.bot_flags = <<"AUTOMATION_TOOL_DETECTED">>

\* what the analyzers found, as the metrics of the result record it
Fired ==
    LET typing == res.metrics.typing_dynamics
    IN [environment |-> "environment_anomalies" \in DOMAIN res.metrics,
        bot         |-> "bot_detected" \in DOMAIN res.metrics,
        typing      |-> \/ Get(typing, "flight_z_score", 0) > 250
                        \/ Get(typing, "dwell_z_score", 0) > 250,
        geo         |-> "impossible_travel" \in DOMAIN res.metrics.geo_analysis,
        device      |-> "new_device" \in DOMAIN res.metrics.device_analysis]

\* the reasons of the analyzers in keep, in the fixed order
ReasonsOf(keep) ==
    (IF "environment" \in keep
       THEN << EnvironmentReason(res.metrics.environment_anomalies) >> ELSE <<>>)
    \o (IF "bot" \in keep THEN << BotReason(res.metrics.mouse_entropy) >> ELSE <<>>)
    \o (IF "typing" \in keep THEN << TypingReason >> ELSE <<>>)
    \o (IF "geo" \in keep THEN << GeoReason >> ELSE <<>>)
    \o (IF "device" \in keep THEN << DeviceReason >> ELSE <<>>)

EnvTags == Get(res.metrics, "environment_anomalies", <<>>)

\* what the other four analyzers add to the risk of the call, 1/10000 points
OtherRisk ==
    (IF "bot_detected" \in DOMAIN res.metrics THEN 85 * 25 * 100 ELSE 0)
    + analyze_typing_dynamics(tel, prof).risk
    + analyze_geo_anomalies(tel, prof, res.metrics.timestamp).risk
    + analyze_device_consistency(tel, prof).risk

\* C20: the environment tags are the deduplicated set of the declared
\* bot_flags and the detected tags, and they add exactly 30 to the risk when
\* there is at least one and exactly 0 when there is none, however many
\* there are and however often one was declared.
C20_EnvironmentBinary ==
    res.called /\ ~res.raised /\ ~Locked(prof) =>
        LET declared == Get(tel, "bot_flags", <<>>)
            found == EnvFound(Get(tel, "fingerprint", EmptyDict))
            contribution == IF EnvTags # <<>> THEN 30 * 10000 ELSE 0
        IN /\ \A i, j \in 1..Len(EnvTags) : EnvTags[i] = EnvTags[j] => i = j
           /\ {EnvTags[i] : i \in 1..Len(EnvTags)}
                = {declared[i] : i \in 1..Len(declared)} \cup {found[i] : i \in 1..Len(found)}
           /\ res.score = Min(100, Max(10 * 10000, OtherRisk + contribution) \div 10000)

\* four tags, one of them declared twice and one both declared and
\* detected, add 30 to the 6 points of an unknown device
C20_Witness ==
    /\ res.called /\ ~res.raised
    /\ prof = KnownProfile
    /\ Len(Get(tel, "bot_flags", <<>>)) = 3
    /\ Len(EnvTags) = 4
    /\ res.metrics.device_analysis = [new_device |-> TRUE]
    /\ res.score = 36

\* the baseline the profile of the call records
BaselineOf(profile) == Get(profile, "baseline_stats", EmptyDict)

\* what one keystroke signal adds, 1/10000 points: nothing unless the
\* baseline records mean_key, the vector vec_key is not empty and the
\* z-score of the result exceeds 2.5; then min(cap, per_z * z) times 0.35
TypingSignal(vec_key, mean_key, z_key, cap, per_z) ==
    LET z == Get(res.metrics.typing_dynamics, z_key, 0)
    IN IF /\ mean_key \in DOMAIN BaselineOf(prof)
          /\ Get(tel, vec_key, <<>>) # <<>>
          /\ z > 250
         THEN (Min(cap * 10000, per_z * z * 100) * 35) \div 100
         ELSE 0

\* what the other four analyzers add to the risk of the call
RiskBesidesTyping ==
    (IF EnvTags # <<>> THEN 30 * 10000 ELSE 0)
    + (IF "bot_detected" \in DOMAIN res.metrics THEN 85 * 25 * 100 ELSE 0)
    + analyze_geo_anomalies(tel, prof, res.metrics.timestamp).risk
    + analyze_device_consistency(tel, prof).risk

\* C21: each of flight and dwell adds risk only when the baseline records
\* its mean, its vector is not empty and its z-score exceeds 2.5, and then
\* adds min(40, 10 z) (flight) or min(30, 8 z) (dwell) times 0.35; in every
\* other case, and for a profile without baseline, typing adds 0.
C21_TypingContribution ==
    res.called /\ ~res.raised /\ ~Locked(prof) =>
        LET expected == Round2(TypingSignal("flight_vec", "flight_mean", "flight_z_score", 40, 10)
                               + TypingSignal("dwell_vec", "dwell_mean", "dwell_z_score", 30, 8))
        IN /\ analyze_typing_dynamics(tel, prof).risk = expected
           /\ res.score = Min(100, Max(10 * 10000, RiskBesidesTyping + expected) \div 10000)
           /\ BaselineOf(prof) = EmptyDict =>
                 /\ expected = 0
                 /\ res.metrics.typing_dynamics = EmptyDict

\* flight times 3 deviations and dwell times 3.2 deviations off the baseline
\* add 10.5 and 8.96
C21_Witness ==
    /\ res.called /\ ~res.raised /\ ~Locked(prof)
    /\ tel = ModerateSession
    /\ {"flight_mean", "dwell_mean"} \subseteq DOMAIN BaselineOf(prof)
    /\ res.metrics.typing_dynamics.flight_z_score = 300
    /\ res.metrics.typing_dynamics.dwell_z_score = 320
    /\ analyze_typing_dynamics(tel, prof).risk = 194600
    /\ res.score = 19

\* C22: for an unlocked profile, whenever an analyzer's own threshold fires
\* (a typing z-score above 2.5, impossible travel flagged, a new device
\* flagged) and it adds risk, its reason is in risk_factors.
\* Does not hold: the reasons are appended on the weighted risks exceeding
\* 20, 50 and 30, and the weighted geo and device risks are 9 and 6.
C22_ReasonsPresent ==
    res.called /\ ~res.raised /\ ~Locked(prof) =>
        LET reasons == {res.metrics.risk_factors[i] : i \in 1..Len(res.metrics.risk_factors)}
        IN /\ Fired.typing /\ analyze_typing_dynamics(tel, prof).risk > 0
                => TypingReason \in reasons
           /\ Fired.geo /\ analyze_geo_anomalies(tel, prof, res.metrics.timestamp).risk > 0
                => GeoReason \in reasons
           /\ Fired.device /\ analyze_device_consistency(tel, prof).risk > 0
                => DeviceReason \in reasons

-----------------------------------------------------------------------------
(* Properties of the API, under Spec *)

\* the last request handled was a verification answered with a decision
Verified == last.op = "verify" /\ last.status = 200

\* the document of the user of the last request
LastProfile == profiles[ProfileId(profiles, last.merchant_id, last.user_uid)]

\* C3: score < 40 gives ALLOW, 40 <= score < 80 gives VERIFY, score >= 80
\* gives LOCK, and the profile is locked iff the decision is LOCK.
C3_DecisionMapping ==
    Verified =>
        /\ last.risk_score < 40 => last.decision = "ALLOW"
        /\ 40 <= last.risk_score /\ last.risk_score < 80 => last.decision = "VERIFY"
        /\ last.risk_score >= 80 => last.decision = "LOCK"
        /\ last.lock_called <=> last.decision = "LOCK"
        /\ LastProfile.is_locked <=> last.decision = "LOCK"

\* a verification scored exactly 80 and locked the profile
C3_Witness ==
    /\ Verified
    /\ last.risk_score = 80
    /\ last.decision = "LOCK"
    /\ LastProfile.is_locked

\* C16: a verification's response carries metrics if and only if its
\* decision is VERIFY or LOCK (a score of 40 or more); an ALLOW response
\* never does.
C16_MetricsOnlyOnVerifyOrLock ==
    Verified =>
        /\ last.has_metrics <=> last.decision \in {"VERIFY", "LOCK"}
        /\ last.has_metrics <=> last.risk_score >= 40
        /\ last.decision = "ALLOW" => ~last.has_metrics

\* an ALLOW response without metrics
C16_Witness ==
    /\ Verified
    /\ last.decision = "ALLOW"
    /\ last.risk_score < 40
    /\ ~last.has_metrics

\* the fields a verification updates
SessionFields(doc) ==
    [k \in {"baseline_stats", "known_fingerprints", "last_geo_location",
            "last_session_timestamp"} \cap DOMAIN doc |-> doc[k]]

\* C5: once a verification has locked a user's profile, every later
\* verification of that user returns LOCK with score 100 and leaves the
\* profile's session fields alone, until the profile is unlocked.
\* Does not hold: a verification whose telemetry has a null fingerprint is
\* answered 500, without a decision.
C5_LockedStaysLocked ==
    [][\A id \in 1..Len(profiles) :
          /\ profiles[id].is_locked
          /\ nreq' = nreq + 1
          /\ last'.op = "verify"
          /\ last'.merchant_id = profiles[id].merchant_id
          /\ last'.user_uid = profiles[id].user_uid
          => /\ last'.status = 200
             /\ last'.decision = "LOCK"
             /\ last'.risk_score = 100
             /\ SessionFields(profiles'[id]) = SessionFields(profiles[id])]_vars

\* the step clears the lock of document id
Unlocks(id) == profiles[id].is_locked /\ ~profiles'[id].is_locked

\* the step is verify_recovery succeeding on the valid OTP of the user of id
RecoveredBy(id) ==
    LET otp == otps[profiles[id].user_uid]
    IN /\ last'.op = "verify_recovery" /\ last'.status = 200
       /\ last'.user_uid = profiles[id].user_uid
       /\ otp # NoOtp
       /\ otp.code = last'.otp_code
       /\ now < otp.expires
       /\ otp.attempts < 3

\* the step is reset_user_profile on the user of id
ResetBy(id) ==
    /\ last'.op = "reset" /\ last'.status = 200
    /\ last'.user_uid = profiles[id].user_uid

\* C6 as the code has it: is_locked goes from true to false only by
\* verify_recovery succeeding on a valid OTP or by reset_user_profile.
C6_UnlockOnlyByRecoveryOrReset ==
    [][\A id \in 1..Len(profiles) : Unlocks(id) => RecoveredBy(id) \/ ResetBy(id)]_vars

\* C6 as stated: is_locked goes from true to false only by verify_recovery
\* succeeding on a valid OTP.
C6_UnlockOnlyByRecovery ==
    [][\A id \in 1..Len(profiles) : Unlocks(id) => RecoveredBy(id)]_vars

\* a reset has cleared a lock: the reason of the lock is still stored
C6_Witness ==
    /\ last.op = "reset" /\ last.status = 200
    /\ ~LastProfile.is_locked
    /\ "locked_reason" \in DOMAIN LastProfile
    /\ LastProfile.locked_reason # None

\* known_fingerprints of document id of a store, [] for a document without
KnownOf(store, id) ==
    IF id <= Len(store) THEN Get(store[id], "known_fingerprints", <<>>) ELSE <<>>

\* fp was appended to old, the oldest entries dropped beyond 5
AppendedTo(old, fp, new) ==
    /\ Len(new) = Min(5, Len(old) + 1)
    /\ new[Len(new)] = fp
    /\ \A i \in 1..(Len(new) - 1) : new[i] = old[Len(old) - (Len(new) - 1) + i]

\* C9: known_fingerprints has at most 5 entries and no two equal ones; a
\* verification that updates the profile appends a new fingerprint at the
\* end, dropping the oldest beyond 5, and leaves the list alone for a
\* fingerprint already in it.
C9_KnownFingerprints ==
    /\ [](\A id \in 1..Len(profiles) :
            LET known == KnownOf(profiles, id)
            IN /\ Len(known) <= 5
               /\ \A i, j \in 1..Len(known) : known[i] = known[j] => i = j)
    /\ [][\A id \in 1..Len(profiles') :
            LET old == KnownOf(profiles, id)
                new == KnownOf(profiles', id)
                isNew == \A i \in 1..Len(old) : old[i] # last'.fingerprint
                mine == /\ nreq' = nreq + 1
                        /\ last'.merchant_id = profiles'[id].merchant_id
                        /\ last'.user_uid = profiles'[id].user_uid
            IN IF mine /\ last'.op = "verify" /\ last'.updated
                  /\ last'.has_fingerprint /\ isNew
                 THEN AppendedTo(old, last'.fingerprint, new)
               ELSE IF mine /\ last'.op = "reset" /\ last'.status = 200
                 THEN new = <<>>
               ELSE new = old]_vars

\* a sixth fingerprint has pushed the oldest out of a full list
C9_Witness ==
    /\ Verified /\ last.updated
    /\ LET known == KnownOf(profiles, 1)
       IN /\ Len(known) = 5
          /\ known[5] = last.fingerprint
          /\ known[1] = Device(2)
          /\ \A i \in 1..5 : known[i] # Device(1)

-----------------------------------------------------------------------------
(* Properties of a user's sessions, under SpecSessions *)

\* C17: when the request states a location, in its telemetry or in its
\* geo_location field, verify_session does not ask the resolver and the
\* engine scores the location the caller stated.
\* Does not hold: a location stated inside telemetry alone is not looked at;
\* the resolver is asked and its answer replaces the stated location.
C17_ResolverOnlyWithoutLocation ==
    last.op = "verify" /\ last.status # 400
    /\ (last.telemetry_geo # NoGeo \/ last.body_geo # NoGeo) =>
        /\ ~last.resolver_called
        /\ last.scored_geo \in {last.telemetry_geo, last.body_geo} \ {NoGeo}

\* the exponential moving average of alpha = 0.3, or the sample when there
\* is no old value
Ema(stats, key, sample) ==
    IF key \in DOMAIN stats THEN (70 * stats[key] + 30 * sample) \div 100 ELSE sample

\* C18: a verification that updates the profile from a non-empty flight
\* vector writes flight_mean and flight_std as 0.7 * old + 0.3 * sample, or
\* as the sample when the profile had no old value.
\* Does not hold: flight_std is written as the sample's deviation alone.
C18_BaselineEma ==
    [][nreq' = nreq + 1 /\ last'.op = "verify" /\ last'.updated /\ last'.flight_vec # <<>> =>
         LET id  == ProfileId(profiles', last'.merchant_id, last'.user_uid)
             old == IF id <= Len(profiles) THEN profiles[id].baseline_stats ELSE EmptyDict
             new == profiles'[id].baseline_stats
         IN /\ new.flight_mean = Ema(old, "flight_mean", NpMean(last'.flight_vec))
            /\ new.flight_std = Ema(old, "flight_std", NpStd(last'.flight_vec))]_vars

\* C28: the baseline update of a verification that does not lock leaves
\* the stored dwell statistics as they were: an entry of baseline_stats that
\* the verification does not recompute has the same value afterwards.
\* Does not hold: the update writes baseline_stats as a whole, with
\* flight_mean and flight_std alone.
C28_DwellStatsKept ==
    [][nreq' = nreq + 1 /\ last'.op = "verify" /\ last'.updated =>
         LET id == ProfileId(profiles', last'.merchant_id, last'.user_uid)
         IN id <= Len(profiles) =>
              \A key \in {"dwell_mean", "dwell_std"} \cap DOMAIN profiles[id].baseline_stats :
                  /\ key \in DOMAIN profiles'[id].baseline_stats
                  /\ profiles'[id].baseline_stats[key] = profiles[id].baseline_stats[key]]_vars

\* C29: after n verifications of a user, one after the other, the
\* total_verifications that get_user_profile returns is n.
\* Does not hold: the count is incremented in the handler's copy of the
\* profile and never written.
C29_TotalVerifications ==
    LET answer == get_user_profile(profiles, "m1", "u1")
    IN answer.status = 200 => answer.total_verifications = nreq

-----------------------------------------------------------------------------
(* Properties of account recovery across merchants, under SpecTenants *)

\* C23: verify_recovery unlocks the profile of (merchant, user) only with the
\* code of an OTP that a request_recovery of that same merchant issued for
\* the user; an OTP issued under one merchant never unlocks the same
\* user_uid under another.
\* Does not hold: the OTP is stored under "otp:<user_uid>", whichever
\* merchant asked for it.
C23_OtpPerMerchant ==
    [][\A id \in 1..Len(profiles) :
          Unlocks(id) /\ last'.op = "verify_recovery" =>
              /\ RecoveredBy(id)
              /\ issuer[profiles[id].user_uid] = profiles[id].merchant_id]_vars

-----------------------------------------------------------------------------
(* Properties of concurrent OTP verification, under SpecOtp *)

\* the calls that returned after reading the OTP with this code
CallsOn(code) ==
    {t \in 1..MaxCalls : threads[t].pc = "done" /\ threads[t].issue = code}

\* C24: for each OTP issued, at most 3 (max_attempts) wrong codes are ever
\* compared against it, under any interleaving of verify_otp calls.
\* Does not hold: calls that read the key before any of them rewrites it
\* all see the same number of attempts.
C24_AttemptLimit ==
    \A i \in 1..Len(IssuedCodes) :
        Cardinality({t \in CallsOn(IssuedCodes[i]) :
                        threads[t].compared /\ ~threads[t].ok}) <= MAX_ATTEMPTS

\* C25: each OTP issued makes at most one verify_otp call return true,
\* under any interleaving of verify_otp calls.
\* Does not hold: two calls that read the key before either deletes it both
\* find the code equal.
C25_SingleUse ==
    \A i \in 1..Len(IssuedCodes) :
        Cardinality({t \in CallsOn(IssuedCodes[i]) : threads[t].ok}) <= 1

-----------------------------------------------------------------------------
(* Properties of the API key gate, under SpecGate *)

\* the step is a request that reached its handler
Admitted == last'.op = "request" /\ nreq' = nreq + 1 /\ last'.status = 200

\* C26: a request reaches a protected handler only if the merchant's stored
\* credits are greater than 0, and the stored credits never fall below 0.
\* Does not hold: the gate reads the credits of the merchant data it cached
\* for five minutes, and deduct_credits decrements unconditionally.
C26_CreditGate ==
    [][/\ Admitted => merchants[last'.merchant_id].credits > 0
       /\ \A m \in DOMAIN merchants : merchants'[m].credits >= 0]_vars

\* C30: a request is admitted only if the key it presents is the merchant's
\* current key in the store and the merchant's current status is active: a
\* rotated key and the keys of a suspended merchant are rejected from the
\* next request on.
\* Does not hold: rotate_key invalidates nothing and update_merchant leaves
\* "api_key:<key>" in place, so the gate goes on admitting for five minutes.
C30_KeyRevocation ==
    [][Admitted => /\ merchants[last'.merchant_id].api_key = last'.api_key
                   /\ merchants[last'.merchant_id].status = "active"]_vars

-----------------------------------------------------------------------------
(* Properties of concurrent verifications, under SpecFirst *)

\* the documents of the pair in the profile store
ProfilesOf(merchant_id, user_uid) ==
    {i \in 1..Len(profiles) : /\ profiles[i].merchant_id = merchant_id
                              /\ profiles[i].user_uid = user_uid}

\* C27: the store holds at most one profile per (merchant_id, user_uid),
\* and exactly one after concurrent first verifications of a user unknown
\* before.
\* Does not hold: two requests that both got None from get_profile both
\* call create_profile, which adds a document under a fresh id.
C27_OneProfilePerPair ==
    /\ Cardinality(ProfilesOf("m1", "u1")) <= 1
    /\ nreq > 0 => Cardinality(ProfilesOf("m1", "u1")) = 1
=============================================================================
